---- MODULE Spec2Model ----
(***************************************************************************)
(* scrapy-webarchive: the WARC writer and WACZ exporter, the WACZ packager, *)
(* the ZIP storage backends, the WACZ reader, the replay middlewares, the   *)
(* archive selector strategies, the CDXJ line parser and the settings that  *)
(* enable the components, as state machines.                                *)
(*                                                                          *)
(* Byte strings are sequences of cells [kind, v, k]: cell k of the encoding *)
(* of the value v.  A gzip member of a WARC record r is the cell sequence   *)
(* GzipMember(r); a slice of a file is a SubSeq of its cells, and gunzip    *)
(* parses cells back into records, failing on a slice that does not start   *)
(* and end on member boundaries.                                            *)
(***************************************************************************)
EXTENDS Integers, Sequences, FiniteSets, TLC

VARIABLES
    pc,           \* exporter lifecycle: "new", "open", "closed", "raised"
    clock,        \* the UTC second get_formatted_dt_string reads
    uuid,         \* number of record ids handed out so far (uuid1/uuid4)
    warc_file,    \* bytes of the WARC file the writer appends to
    fs,           \* names of the local files that exist
    stats,        \* the crawler's stats collector
    downloads,    \* history: the (request, response) pairs handled so far
    packages,     \* the WACZ packages produced: sequence of [by, path, persisted, zip]
    reader,       \* the WaczFile opened on the persisted package, or NoReader
    fetched,      \* outcome of the last get_warc_from_url
    spider,       \* the attributes of the spider the replay middlewares see
    crawl,        \* the crawl-from-archive setting of the replay middleware
    wacz,         \* the archive(s) the replay middleware has opened
    wacz_stats,   \* the wacz/... counters of the stats collector
    outcome,      \* what the last middleware call returned, yielded or raised
    fetched_part, \* the last fetch_file_part call with the result of each backend
    files,        \* the FileInfo list handed to a strategy
    target,       \* the target instant handed to a strategy
    found,        \* what BeforeStrategy.find and AfterStrategy.find returned
    cdxline,      \* the text line handed to CdxjRecord.from_cdxline
    from_line,    \* what CdxjRecord.from_cdxline returned or raised
    settings,     \* the crawler settings the extension and the middleware read
    configured    \* what constructing the exporter and the middleware gave

exporter_vars == <<pc, clock, uuid, warc_file, fs, stats, downloads, packages, reader, fetched>>
replay_vars == <<spider, crawl, wacz, wacz_stats, outcome>>
storage_vars == <<fetched_part>>
strategy_vars == <<files, target, found>>
cdxj_vars == <<cdxline, from_line>>
settings_vars == <<settings, configured>>
vars == <<exporter_vars, replay_vars, storage_vars, strategy_vars, cdxj_vars, settings_vars>>

----------------------------------------------------------------------------
(* Bounds of the model.                                                     *)

MaxDownloads == 2
MaxClock == 1
MaxFiles == 3
MaxInstant == 2

----------------------------------------------------------------------------
(* Inputs the crawler hands to the exporter.                                *)

Urls == {"https://quotes.toscrape.com/", "https://quotes.toscrape.com/tag/love/"}
Statuses == {200, 404}
Bodies == {<<>>, <<104>>}
Methods == {"GET"}

Requests == [url : Urls, method : Methods, body : {<<>>}]
\* The responses downloaded: a page with a body, an empty page, a page that
\* is missing.
Responses ==
    {r \in [url : Urls, status : Statuses, body : Bodies] :
        /\ r.status = 404 => r.body = <<>>
        /\ r.url = "https://quotes.toscrape.com/" => (r.status = 200 /\ r.body # <<>>)}

\* Python None where a WARC record is expected.
NoRecord == [type |-> "none"]

\* scrapy_webarchive/wacz/constants.py (ARCHIVE_DIR, INDEXES_DIR)
ARCHIVE_DIR == "archive/"
INDEXES_DIR == "indexes/"

EndsWith(s, suffix) ==
    /\ Len(s) >= Len(suffix)
    /\ SubSeq(s, Len(s) - Len(suffix) + 1, Len(s)) = suffix

----------------------------------------------------------------------------
(* WARC records and their gzip members (warcio.WARCWriter, gzip=True).      *)

WARC_1_0 == "WARC/1.0"
WARC_VERSION == "WARC/1.1"

WarcRecord(version, type, uri, date, id, concurrent_to, status, method, body) ==
    [version |-> version, type |-> type, uri |-> uri, date |-> date, id |-> id,
     concurrent_to |-> concurrent_to, status |-> status, method |-> method,
     body |-> body]

\* Length in bytes of the gzip member holding one record: the headers, then
\* the payload body.
GzipLen(rec) == 1 + Len(rec.body)

GzipMember(rec) ==
    [k \in 1..GzipLen(rec) |-> [kind |-> "gz", v |-> rec, k |-> k]]

\* with open(self.warc_fname, "ab") as fh: ... writer.write_record(record)
write_record_mut(file, record) == GzipMember(record) \o file
write_record(file, record) == file \o GzipMember(record)

\* WarcFileWriter.__record_id: a fresh uuid per call.
record_id(n) == n + 1

write_response(response, request, warc_date, id) ==
    WarcRecord(WARC_VERSION, "response", response.url, warc_date, id, 0,
               response.status, "", response.body)

write_request_mut(request, concurrent_to, warc_date, id) ==
    WarcRecord(WARC_VERSION, "request", request.url, warc_date, id,
               id, 0, request.method, request.body)
write_request(request, concurrent_to, warc_date, id) ==
    WarcRecord(WARC_VERSION, "request", request.url, warc_date, id,
               concurrent_to.id, 0, request.method, request.body)

\* WARCWriter(fh, gzip=True) without warc_version: warcio's default version.
write_warcinfo(date, id) ==
    WarcRecord(WARC_1_0, "warcinfo", "", date, id, 0, 0, "", <<>>)

----------------------------------------------------------------------------
(* gzip: reading a concatenation of members back.                           *)

\* The members found from cell i on (1-based), each with the byte offset and
\* length of its member; ok is FALSE when the bytes from i are not a
\* concatenation of whole gzip members (BadGzipFile, EOFError).
RECURSIVE GunzipFrom(_, _)
GunzipFrom(bytes, i) ==
    IF i > Len(bytes) THEN [ok |-> TRUE, members |-> <<>>]
    ELSE IF bytes[i].kind # "gz" \/ bytes[i].k # 1
         THEN [ok |-> FALSE, members |-> <<>>]
    ELSE LET rec == bytes[i].v
             n == GzipLen(rec)
         IN  IF \/ i + n - 1 > Len(bytes)
                \/ \E j \in 1..n : bytes[i + j - 1] # [kind |-> "gz", v |-> rec, k |-> j]
             THEN [ok |-> FALSE, members |-> <<>>]
             ELSE LET rest == GunzipFrom(bytes, i + n)
                  IN  [ok |-> rest.ok,
                       members |-> <<[rec |-> rec, offset |-> i - 1, length |-> n]>>
                                   \o rest.members]

\* gzip.compress(data): one gzip member holding a byte string that is not
\* a WARC record (an index).
Gzip(data) == GzipMember([type |-> "stream", body |-> data])

\* What the members decompress to: one cell per WARC record, and the byte
\* string itself for a member made by Gzip.
RECURSIVE Inflate(_)
Inflate(members) ==
    IF members = <<>> THEN <<>>
    ELSE (IF members[1].rec.type = "stream" THEN members[1].rec.body
          ELSE <<[kind |-> "warc", v |-> members[1].rec, k |-> 1]>>)
         \o Inflate(Tail(members))

\* gzip.open(f).read(): the decompressed stream.
Gunzip(bytes) ==
    LET g == GunzipFrom(bytes, 1)
    IN  [ok |-> g.ok, data |-> Inflate(g.members)]

\* WARCReader(stream).read_record(): the first record of a plain WARC stream.
read_record(data) ==
    IF data = <<>> THEN NoRecord ELSE data[1].v

----------------------------------------------------------------------------
(* CDXJ index generation (cdxj_indexer.CDXJIndexer with its defaults).      *)

DEFAULT_RECORDS == {"response", "revisit", "resource", "metadata"}

RECURSIVE SelectSeq2(_, _)
SelectSeq2(s, types) ==
    IF s = <<>> THEN <<>>
    ELSE (IF s[1].rec.type \in types THEN <<s[1]>> ELSE <<>>) \o SelectSeq2(Tail(s), types)

\* write_cdxj_index(output, inputs=[warc_fname]): one line per indexed
\* record, in WARC order, with the record's offset and length in the file.
write_cdxj_index(warc_bytes, fname) ==
    LET ms == SelectSeq2(GunzipFrom(warc_bytes, 1).members, DEFAULT_RECORDS)
    IN  [i \in 1..Len(ms) |->
            [kind |-> "line", k |-> 1,
             v |-> [datetime |-> ms[i].rec.date,
                    data |-> [url |-> ms[i].rec.uri, status |-> ms[i].rec.status,
                              offset |-> ms[i].offset, length |-> ms[i].length,
                              filename |-> fname]]]]

----------------------------------------------------------------------------
(* The WACZ packagers.  A ZIP is the sequence of its members               *)
(* [name, method, content], content being the member's uncompressed bytes.  *)

warc_fname == "quotes-20241004082711-00000-host.warc.gz"
cdxj_fname == "index.cdxj"
datapackage_fname == "datapackage.json"
wacz_fname == "quotes-20241004082711.wacz"

\* zip_file.writestr(destination + os.path.basename(filename), file.read())
write_to_zip(zip, method, filename, destination, content) ==
    Append(zip, [name |-> destination \o filename, method |-> method, content |-> content])

Member(zip, name) ==
    LET hit == {i \in 1..Len(zip) : zip[i].name = name}
    IN  zip[CHOOSE i \in hit : \A j \in hit : j <= i]

namelist(zip) == {zip[i].name : i \in 1..Len(zip)}

\* os.path.basename of a member path of the package.
basename(path) ==
    IF Len(path) > Len(ARCHIVE_DIR) /\ SubSeq(path, 1, Len(ARCHIVE_DIR)) = ARCHIVE_DIR
    THEN SubSeq(path, Len(ARCHIVE_DIR) + 1, Len(path))
    ELSE IF Len(path) > Len(INDEXES_DIR) /\ SubSeq(path, 1, Len(INDEXES_DIR)) = INDEXES_DIR
         THEN SubSeq(path, Len(INDEXES_DIR) + 1, Len(path))
         ELSE path

\* utils.hash_stream(hash_type, stream): the stream's size and
\* "<hash_type>:<hexdigest>"; the digest is modelled by the content itself.
hash_stream(hash_type, content) ==
    [size |-> Len(content), hash |-> [alg |-> hash_type, digest |-> content]]

collect_resources_mut(zip) ==
    [i \in 1..Len(zip) |->
        [name |-> basename(zip[i].name),
         path |-> zip[i].name,
         hash |-> hash_stream("sha256", zip[1].content).hash,
         bytes |-> hash_stream("sha256", zip[1].content).size]]
collect_resources(zip) ==
    [i \in 1..Len(zip) |->
        [name |-> basename(zip[i].name),
         path |-> zip[i].name,
         hash |-> hash_stream("sha256", zip[i].content).hash,
         bytes |-> hash_stream("sha256", zip[i].content).size]]

RECURSIVE FirstOfType(_, _)
FirstOfType(data, type) ==
    IF data = <<>> THEN NoRecord
    ELSE IF data[1].v.type = type THEN data[1].v
    ELSE FirstOfType(Tail(data), type)

\* update_package_metadata_from_warc: mainPageUrl/mainPageDate of the first
\* request record ("" and 0 stand for the keys being absent).
update_package_metadata_from_warc(warc_content, fname) ==
    LET stream == IF EndsWith(fname, ".gz") THEN Gunzip(warc_content).data ELSE warc_content
        first == FirstOfType(stream, "request")
    IN  IF first = NoRecord THEN [mainPageUrl |-> "", mainPageDate |-> 0]
        ELSE [mainPageUrl |-> first.uri, mainPageDate |-> first.date]

write_datapackage(zip, method, fname, now) ==
    LET meta == update_package_metadata_from_warc(Member(zip, ARCHIVE_DIR \o fname).content, fname)
        package_dict == [profile |-> "data-package", created |-> now, modified |-> now,
                         wacz_version |-> "1.1.1",
                         mainPageUrl |-> meta.mainPageUrl, mainPageDate |-> meta.mainPageDate,
                         resources |-> collect_resources(zip)]
    IN  Append(zip, [name |-> datapackage_fname, method |-> method,
                     content |-> <<[kind |-> "json", v |-> package_dict, k |-> 1]>>])

create_wacz_zip_mut(index_bytes, warc_bytes, now) ==
    write_to_zip(write_to_zip(<<>>, "STORED", cdxj_fname, INDEXES_DIR, index_bytes),
                 "STORED", warc_fname, ARCHIVE_DIR, warc_bytes)

\* wacz/creator.py: zipfile.ZipFile(zip_buffer, "w", zipfile.ZIP_STORED, allowZip64=True)
create_wacz_zip(index_bytes, warc_bytes, now) ==
    write_datapackage(
        write_to_zip(write_to_zip(<<>>, "STORED", cdxj_fname, INDEXES_DIR, index_bytes),
                     "STORED", warc_fname, ARCHIVE_DIR, warc_bytes),
        "STORED", warc_fname, now)

\* wacz.py: zipfile.ZipFile(zip_buffer, "w", zipfile.ZIP_DEFLATED)
create_wacz_zip_deflated(index_bytes, warc_bytes, now) ==
    write_datapackage(
        write_to_zip(write_to_zip(<<>>, "DEFLATED", cdxj_fname, "indexes/", index_bytes),
                     "DEFLATED", warc_fname, "archive/", warc_bytes),
        "DEFLATED", warc_fname, now)

\* warcio.py: zipfile.ZipFile("archive.wacz", "w") and ZipInfo.from_file
\* entries (both default to ZIP_STORED); no datapackage is written.
create_wacz(index_bytes, warc_bytes) ==
    write_to_zip(write_to_zip(<<>>, "STORED", cdxj_fname, "indexes/", index_bytes),
                 "STORED", warc_fname, "archive/", warc_bytes)

----------------------------------------------------------------------------
(* The bytes of a ZIP container, as the ranged reader sees them.            *)

\* struct sizes of the ZIP format the ranged reader computes with
LOCAL_HEADER_SIZE == 30
CD_HEADER_SIZE == 46
EOCD_RECORD_SIZE == 22

Cells(kind, v, n) == [k \in 1..n |-> [kind |-> kind, v |-> v, k |-> k]]

\* A deflated member's data: bytes that are not the content's bytes.
MemberData(m) ==
    IF m.method = "STORED" THEN m.content
    ELSE Cells("deflate", [of |-> m.content], Len(m.content) + 1)

LocalHeader(m) == Cells("lfh", [name |-> m.name], LOCAL_HEADER_SIZE + Len(m.name))

RECURSIVE LocalEntries(_)
LocalEntries(zip) ==
    IF zip = <<>> THEN <<>>
    ELSE LocalHeader(zip[1]) \o MemberData(zip[1]) \o LocalEntries(Tail(zip))

RECURSIVE CentralDirectory(_)
CentralDirectory(zip) ==
    IF zip = <<>> THEN <<>>
    ELSE Cells("cd", [name |-> zip[1].name], CD_HEADER_SIZE + Len(zip[1].name))
         \o CentralDirectory(Tail(zip))

ZipBytes(zip) ==
    LocalEntries(zip) \o CentralDirectory(zip) \o Cells("eocd", [n |-> Len(zip)], EOCD_RECORD_SIZE)

\* S3 get_object(Range="bytes=start-end"): the bytes start..end of the object.
get_object(object, start, end) ==
    IF end < start \/ start >= Len(object)
    THEN [status |-> "InvalidRange", data |-> <<>>]
    ELSE [status |-> "ok",
          data |-> SubSeq(object, start + 1, IF end + 1 > Len(object) THEN Len(object) ELSE end + 1)]

\* RemoteZipStorageHandler._get_zip_metadata: the member map
\* parse_central_directory builds for an archive without ZIP64 extensions.
zip_metadata(zip) ==
    [name \in namelist(zip) |->
        LET i == CHOOSE i \in 1..Len(zip) :
                    zip[i].name = name /\ \A j \in 1..Len(zip) : zip[j].name = name => j <= i
        IN  [header_offset |-> Len(LocalEntries(SubSeq(zip, 1, i - 1))),
             file_header_length |-> LOCAL_HEADER_SIZE + Len(name),
             compressed_size |-> Len(MemberData(zip[i]))]]

----------------------------------------------------------------------------
(* The ZIP storage handlers.  A result is [status, data]; a status other    *)
(* than "ok" names the exception raised.                                    *)

Ok(data) == [status |-> "ok", data |-> data]
Raise(exception) == [status |-> exception, data |-> <<>>]

GunzipResult(bytes) ==
    IF Gunzip(bytes).ok THEN Ok(Gunzip(bytes).data) ELSE Raise("BadGzipFile")

LocalZipStorageHandler_fetch_file_part(zip, file_name, offset, size) ==
    IF file_name \notin namelist(zip) THEN Raise("FileNotFoundError")
    ELSE LET content == Member(zip, file_name).content
             rest == SubSeq(content, offset + 1, Len(content))
         IN  IF EndsWith(file_name, ".gz") THEN GunzipResult(rest) ELSE Ok(rest)

LocalZipStorageHandler_fetch_file(zip, file_name) ==
    IF file_name \notin namelist(zip) THEN Raise("FileNotFoundError")
    ELSE LET content == Member(zip, file_name).content
         IN  IF EndsWith(file_name, ".gz") THEN GunzipResult(content) ELSE Ok(content)

_calculate_range_mut(metadata, offset, size) ==
    LET start == metadata.header_offset + offset
    IN  [start |-> start, end |-> start + size - 1]
_calculate_range(metadata, offset, size) ==
    LET start == metadata.header_offset + metadata.file_header_length + offset
    IN  [start |-> start, end |-> start + size - 1]

S3ZipStorageHandler_fetch_file_part(zip, file_name, offset, size) ==
    IF file_name \notin DOMAIN zip_metadata(zip) THEN Raise("KeyError")
    ELSE LET range == _calculate_range(zip_metadata(zip)[file_name], offset, size)
             got == get_object(ZipBytes(zip), range.start, range.end)
         IN  IF got.status # "ok" THEN got
             ELSE IF EndsWith(file_name, ".gz") THEN GunzipResult(got.data) ELSE got

S3ZipStorageHandler_fetch_file(zip, file_name) ==
    IF file_name \notin DOMAIN zip_metadata(zip) THEN Raise("KeyError")
    ELSE LET metadata == zip_metadata(zip)[file_name]
             range == _calculate_range(metadata, 0, metadata.compressed_size)
         IN  get_object(ZipBytes(zip), range.start, range.end)

fetch_file_part(backend, zip, file_name, offset, size) ==
    IF backend = "local" THEN LocalZipStorageHandler_fetch_file_part(zip, file_name, offset, size)
    ELSE S3ZipStorageHandler_fetch_file_part(zip, file_name, offset, size)

fetch_file(backend, zip, file_name) ==
    IF backend = "local" THEN LocalZipStorageHandler_fetch_file(zip, file_name)
    ELSE S3ZipStorageHandler_fetch_file(zip, file_name)

----------------------------------------------------------------------------
(* WaczFile (wacz/wacz_file.py) over a storage handler.                     *)

\* Python None where a CdxjRecord is expected.
NoCdxj == [none |-> TRUE]

index_paths ==
    <<"indexes/index.cdxj", "indexes/index.cdxj.gz", "indexes/index.cdx", "indexes/index.cdx.gz">>

RECURSIVE _get_index(_, _, _)
_get_index(backend, zip, i) ==
    IF i > Len(index_paths) THEN Raise("FileNotFoundError")
    ELSE LET got == fetch_file(backend, zip, index_paths[i])
         IN  IF got.status = "FileNotFoundError" THEN _get_index(backend, zip, i + 1)
             ELSE IF got.status # "ok" THEN got
             ELSE IF EndsWith(index_paths[i], ".gz") THEN GunzipResult(got.data)
             ELSE got

\* CdxjRecord.from_cdxline(line, wacz_file) on the cells of an index: a
\* cell that is no CDXJ line raises ValueError (CdxjRecord_from_cdxline
\* below parses the text of a line).
from_cdxline(cell, wacz_file) ==
    IF cell.kind = "line"
    THEN [ok |-> TRUE,
          rec |-> [datetime |-> cell.v.datetime, data |-> cell.v.data, wacz_file |-> wacz_file]]
    ELSE [ok |-> FALSE, rec |-> NoCdxj]

\* cdxj_records[url].append(cdxj_record) on a dict that keeps insertion
\* order: the dict is the sequence of its [url, records] items.
DictAppend(dict, url, rec) ==
    IF \E i \in 1..Len(dict) : dict[i].url = url
    THEN [i \in 1..Len(dict) |->
             IF dict[i].url = url
             THEN [url |-> url, records |-> Append(dict[i].records, rec)]
             ELSE dict[i]]
    ELSE Append(dict, [url |-> url, records |-> <<rec>>])

RECURSIVE _parse_index(_, _, _)
_parse_index(lines, wacz_file, dict) ==
    IF lines = <<>> THEN [status |-> "ok", index |-> dict]
    ELSE LET parsed == from_cdxline(lines[1], wacz_file)
         IN  IF ~parsed.ok THEN [status |-> "ValueError", index |-> <<>>]
             ELSE _parse_index(Tail(lines), wacz_file,
                               DictAppend(dict, parsed.rec.data.url, parsed.rec))

\* WaczFile.__init__
WaczFile(backend, zip, wacz_file) ==
    LET got == _get_index(backend, zip, 1)
    IN  IF got.status # "ok"
        THEN [state |-> got.status, backend |-> backend, zip |-> zip, index |-> <<>>]
        ELSE LET parsed == _parse_index(got.data, wacz_file, <<>>)
             IN  [state |-> IF parsed.status = "ok" THEN "open" ELSE parsed.status,
                  backend |-> backend, zip |-> zip, index |-> parsed.index]

\* _find_in_index returning records[0].
_find_in_index_mut(index, url) ==
    IF \E i \in 1..Len(index) : index[i].url = url
    THEN LET i == CHOOSE i \in 1..Len(index) : index[i].url = url
         IN  index[i].records[1]
    ELSE NoCdxj

\* records = self.index.get(url, []); records[-1] if records else None
_find_in_index(index, url) ==
    IF \E i \in 1..Len(index) : index[i].url = url
    THEN LET i == CHOOSE i \in 1..Len(index) : index[i].url = url
         IN  index[i].records[Len(index[i].records)]
    ELSE NoCdxj

\* The outcome of a lookup: a record, None, or the exception that escaped.
get_warc_from_cdxj_record(self, cdxj_record) ==
    LET part == fetch_file_part(self.backend, self.zip,
                                ARCHIVE_DIR \o cdxj_record.data.filename,
                                cdxj_record.data.offset, cdxj_record.data.length)
    IN  IF part.status = "FileNotFoundError" THEN [outcome |-> "None", record |-> NoRecord]
        ELSE IF part.status # "ok" THEN [outcome |-> part.status, record |-> NoRecord]
        ELSE IF part.data # <<>> /\ part.data[1].kind # "warc"
             THEN [outcome |-> "WarcError", record |-> NoRecord]
        ELSE IF part.data = <<>> THEN [outcome |-> "None", record |-> NoRecord]
        ELSE [outcome |-> "record", record |-> read_record(part.data)]

get_warc_from_url(self, url) ==
    LET cdxj_record == _find_in_index(self.index, url)
    IN  IF cdxj_record = NoCdxj THEN [outcome |-> "None", record |-> NoRecord]
        ELSE get_warc_from_cdxj_record(self, cdxj_record)

\* for cdxj_records in self.index.values(): for cdxj_record in cdxj_records
RECURSIVE iter_index(_)
iter_index(index) ==
    IF index = <<>> THEN <<>> ELSE index[1].records \o iter_index(Tail(index))

----------------------------------------------------------------------------
(* The parts of the state a specification does not exercise stay idle.      *)

ExporterIdle ==
    /\ pc = "idle"
    /\ clock = 0
    /\ uuid = 0
    /\ warc_file = <<>>
    /\ fs = {}
    /\ stats = [response_written |-> 0, request_written |-> 0,
                writer_status_count |-> [s \in Statuses |-> 0]]
    /\ downloads = <<>>
    /\ packages = <<>>
    /\ reader = [state |-> "none"]
    /\ fetched = [url |-> "", outcome |-> "None", record |-> NoRecord]

ReplayIdle ==
    /\ spider = [name |-> "idle"]
    /\ crawl = FALSE
    /\ wacz = <<>>
    /\ wacz_stats = <<>>
    /\ outcome = [kind |-> "idle"]

StorageIdle == fetched_part = [called |-> FALSE]

StrategyIdle ==
    /\ files = <<>>
    /\ target = 0
    /\ found = [before |-> [called |-> FALSE], after |-> [called |-> FALSE]]

CdxjIdle ==
    /\ cdxline = ""
    /\ from_line = [called |-> FALSE]

SettingsIdle ==
    /\ settings = [idle |-> TRUE]
    /\ configured = [exporter |-> "", middleware |-> "", wacz_uris |-> <<>>]

----------------------------------------------------------------------------
(* The exporter, the packagers and the reader.                              *)

Init ==
    /\ ReplayIdle /\ StorageIdle /\ StrategyIdle /\ CdxjIdle /\ SettingsIdle
    /\ pc = "new"
    /\ clock = 0
    /\ uuid = 0
    /\ warc_file = <<>>
    /\ fs = {}
    /\ stats = [response_written |-> 0, request_written |-> 0,
                writer_status_count |-> [s \in Statuses |-> 0]]
    /\ downloads = <<>>
    /\ packages = <<>>
    /\ reader = [state |-> "none"]
    /\ fetched = [url |-> "", outcome |-> "None", record |-> NoRecord]

\* Time passing while the crawl runs.
Tick ==
    /\ pc = "open"
    /\ clock < MaxClock
    /\ clock' = clock + 1
    /\ UNCHANGED <<pc, uuid, warc_file, fs, stats, downloads, packages, reader, fetched>>
    /\ UNCHANGED <<replay_vars, storage_vars, strategy_vars, cdxj_vars, settings_vars>>

\* response_downloaded counting every response under status 200.
response_downloaded_mut(response, request) ==
    /\ pc = "open"
    /\ Len(downloads) < MaxDownloads
    /\ LET warc_date == clock
           record == write_response(response, request, warc_date, record_id(uuid))
           req == write_request(request, record, warc_date, record_id(uuid + 1))
       IN  /\ warc_file' = write_record(write_record(warc_file, record), req)
           /\ stats' = [stats EXCEPT
                  !.response_written = @ + 1,
                  !.writer_status_count[200] = @ + 1,
                  !.request_written = @ + 1]
           /\ downloads' = Append(downloads,
                  [request |-> request, response |-> response,
                   date |-> warc_date, response_id |-> record.id, request_id |-> req.id])
    /\ uuid' = uuid + 2
    /\ UNCHANGED <<pc, clock, fs, packages, reader, fetched>>
    /\ UNCHANGED <<replay_vars, storage_vars, strategy_vars, cdxj_vars, settings_vars>>

spider_opened ==
    /\ pc = "new"
    /\ warc_file' = write_record(warc_file, write_warcinfo(clock, record_id(uuid)))
    /\ uuid' = uuid + 1
    /\ fs' = fs \cup {"warc"}
    /\ pc' = "open"
    /\ UNCHANGED <<clock, stats, downloads, packages, reader, fetched>>
    /\ UNCHANGED <<replay_vars, storage_vars, strategy_vars, cdxj_vars, settings_vars>>

response_downloaded(response, request) ==
    /\ pc = "open"
    /\ Len(downloads) < MaxDownloads
    /\ LET warc_date == clock
           record == write_response(response, request, warc_date, record_id(uuid))
           req == write_request(request, record, warc_date, record_id(uuid + 1))
       IN  /\ warc_file' = write_record(write_record(warc_file, record), req)
           /\ stats' = [stats EXCEPT
                  !.response_written = @ + 1,
                  !.writer_status_count[record.status] = @ + 1,
                  !.request_written = @ + 1]
           /\ downloads' = Append(downloads,
                  [request |-> request, response |-> response,
                   date |-> warc_date, response_id |-> record.id, request_id |-> req.id])
    /\ uuid' = uuid + 2
    /\ UNCHANGED <<pc, clock, fs, packages, reader, fetched>>
    /\ UNCHANGED <<replay_vars, storage_vars, strategy_vars, cdxj_vars, settings_vars>>

\* WaczFileCreator.create with the given create_wacz_zip: index, ZIP,
\* cleanup of the temporary files, persist_file.
create(by, zip) ==
    /\ fs' = (fs \cup {"cdxj"}) \ {"cdxj", "warc"}
    /\ packages' = Append(packages,
           [by |-> by, path |-> wacz_fname, persisted |-> TRUE, zip |-> zip])

\* extensions.py: WaczFileCreator(...).create() of wacz/creator.py
spider_closed ==
    /\ pc = "open"
    /\ create("wacz/creator.py",
              create_wacz_zip(write_cdxj_index(warc_file, warc_fname), warc_file, clock))
    /\ pc' = "closed"
    /\ UNCHANGED <<clock, uuid, warc_file, stats, downloads, reader, fetched>>
    /\ UNCHANGED <<replay_vars, storage_vars, strategy_vars, cdxj_vars, settings_vars>>

\* The WaczFileCreator of wacz.py closing the same crawl.
spider_closed_wacz_py ==
    /\ pc = "open"
    /\ create("wacz.py",
              create_wacz_zip_deflated(write_cdxj_index(warc_file, warc_fname), warc_file, clock))
    /\ pc' = "closed"
    /\ UNCHANGED <<clock, uuid, warc_file, stats, downloads, reader, fetched>>
    /\ UNCHANGED <<replay_vars, storage_vars, strategy_vars, cdxj_vars, settings_vars>>

\* ScrapyWarcIo.create_wacz of warcio.py: archive.wacz on the local disk,
\* the index and the WARC left in place.
ScrapyWarcIo_create_wacz ==
    /\ pc = "open"
    /\ fs' = fs \cup {"cdxj", "archive.wacz"}
    /\ packages' = Append(packages,
           [by |-> "warcio.py", path |-> "archive.wacz", persisted |-> FALSE,
            zip |-> create_wacz(write_cdxj_index(warc_file, warc_fname), warc_file)])
    /\ pc' = "closed"
    /\ UNCHANGED <<clock, uuid, warc_file, stats, downloads, reader, fetched>>
    /\ UNCHANGED <<replay_vars, storage_vars, strategy_vars, cdxj_vars, settings_vars>>

\* WaczFile(storage_handler=...) on the package just produced.
open_wacz(backend) ==
    /\ pc = "closed"
    /\ reader.state = "none"
    /\ reader' = WaczFile(backend, packages[1].zip, 1)
    /\ UNCHANGED <<pc, clock, uuid, warc_file, fs, stats, downloads, packages, fetched>>
    /\ UNCHANGED <<replay_vars, storage_vars, strategy_vars, cdxj_vars, settings_vars>>

lookup(url) ==
    /\ reader.state = "open"
    /\ fetched' = [url |-> url] @@ get_warc_from_url(reader, url)
    /\ UNCHANGED <<pc, clock, uuid, warc_file, fs, stats, downloads, packages, reader>>
    /\ UNCHANGED <<replay_vars, storage_vars, strategy_vars, cdxj_vars, settings_vars>>

Next ==
    \/ Tick
    \/ spider_opened
    \/ \E response \in Responses, request \in Requests :
          /\ request.url = response.url
          /\ response_downloaded(response, request)
    \/ spider_closed
    \/ spider_closed_wacz_py
    \/ ScrapyWarcIo_create_wacz
    \/ \E backend \in {"local", "s3"} : open_wacz(backend)
    \/ \E url \in Urls \cup {"http://www.example.com/"} : lookup(url)

Spec == Init /\ [][Next]_vars

----------------------------------------------------------------------------
(* Claims about the exporter, the packager and the reader (Spec).           *)

\* The records of the WARC file, in file order.
Records == GunzipFrom(warc_file, 1).members

RecordWithId(id) ==
    LET hit == {i \in 1..Len(Records) : Records[i].rec.id = id}
    IN  IF hit = {} THEN NoRecord ELSE Records[CHOOSE i \in hit : TRUE].rec

\* C1: for every response_downloaded event handled so far, the request
\* record it appended carries a WARC-Concurrent-To equal to the
\* WARC-Record-ID of the response record the same event appended, and both
\* records carry the same WARC-Date.
C1_ConcurrentTo ==
    "warc" \in fs =>
        \A n \in 1..Len(downloads) :
            LET response == RecordWithId(downloads[n].response_id)
                request == RecordWithId(downloads[n].request_id)
            IN  /\ response.type = "response"
                /\ request.type = "request"
                /\ request.concurrent_to = response.id
                /\ request.date = response.date
                /\ response.id # request.id

C1_Witness ==
    /\ pc = "open"
    /\ Len(downloads) >= 2
    /\ downloads[1].date # downloads[2].date
    /\ RecordWithId(downloads[2].request_id).concurrent_to = downloads[2].response_id

\* C2: once the spider is opened, the WARC file holds one warcinfo record
\* first and then, for each download in download order, its response record
\* immediately followed by its request record, and nothing else.
C2_WriteOrder ==
    (pc # "new" /\ "warc" \in fs) =>
        /\ GunzipFrom(warc_file, 1).ok
        /\ Len(Records) = 1 + 2 * Len(downloads)
        /\ Records[1].rec.type = "warcinfo"
        /\ \A n \in 1..Len(downloads) :
              /\ Records[2 * n].rec.type = "response"
              /\ Records[2 * n].rec.uri = downloads[n].response.url
              /\ Records[2 * n].rec.status = downloads[n].response.status
              /\ Records[2 * n].rec.body = downloads[n].response.body
              /\ Records[2 * n + 1].rec.type = "request"
              /\ Records[2 * n + 1].rec.uri = downloads[n].request.url
              /\ Records[2 * n + 1].rec.method = downloads[n].request.method

C2_Witness ==
    /\ pc = "open"
    /\ Len(downloads) >= 2
    /\ downloads[1].response # downloads[2].response
    /\ Len(Records) = 5

PairwiseDistinctUrls ==
    \A m, n \in 1..Len(downloads) :
        downloads[m].response.url = downloads[n].response.url => m = n

\* C5: for a crawl whose downloaded responses have pairwise distinct URLs,
\* packaged by WaczFileCreator (wacz/creator.py) and reopened with WaczFile on
\* either storage backend, the lookup of each response URL returns a response
\* record whose body is the body written for that URL.
C5_RoundTrip ==
    (/\ pc = "closed"
     /\ packages[1].by = "wacz/creator.py"
     /\ PairwiseDistinctUrls
     /\ Len(downloads) >= 1) =>
        /\ reader.state \in {"none", "open"}
        /\ \A n \in 1..Len(downloads) :
              (reader.state = "open" /\ fetched.url = downloads[n].response.url) =>
                  /\ fetched.outcome = "record"
                  /\ fetched.record.type = "response"
                  /\ fetched.record.uri = downloads[n].response.url
                  /\ fetched.record.body = downloads[n].response.body

C5_Witness ==
    /\ pc = "closed"
    /\ packages[1].by = "wacz/creator.py"
    /\ Len(downloads) = 2
    /\ PairwiseDistinctUrls
    /\ downloads[1].response.body # downloads[2].response.body
    /\ reader.state = "open"
    /\ reader.backend = "s3"
    /\ fetched.url = downloads[2].response.url
    /\ fetched.outcome = "record"

\* C9: every member of every WACZ package a writer of the repository
\* produces is stored with ZIP method STORED.
C9_AllStored ==
    \A p \in 1..Len(packages) :
        \A i \in 1..Len(packages[p].zip) : packages[p].zip[i].method = "STORED"

\* The other members of a package: all but datapackage.json.
OtherMembers(zip) == {i \in 1..Len(zip) : zip[i].name # datapackage_fname}

\* C10: in every package produced by WaczFileCreator, the resources array of
\* datapackage.json has exactly one entry for each other member of the ZIP;
\* the entry's path is the member's path, its bytes the length of the
\* member's content and its hash the sha256 of the member's content.
C10_Resources ==
    \A p \in 1..Len(packages) :
        packages[p].by \in {"wacz/creator.py", "wacz.py"} =>
            LET zip == packages[p].zip
                resources == Member(zip, datapackage_fname).content[1].v.resources
            IN  /\ Len(resources) = Cardinality(OtherMembers(zip))
                /\ \A i \in OtherMembers(zip) :
                      \E r \in 1..Len(resources) :
                          /\ resources[r].path = zip[i].name
                          /\ resources[r].bytes = Len(zip[i].content)
                          /\ resources[r].hash = [alg |-> "sha256", digest |-> zip[i].content]
                          /\ \A q \in 1..Len(resources) :
                                resources[q].path = zip[i].name => q = r

C10_Witness ==
    /\ Len(packages) = 1
    /\ packages[1].by = "wacz/creator.py"
    /\ Len(downloads) >= 1
    /\ Cardinality(OtherMembers(packages[1].zip)) = 2
    /\ Len(Member(packages[1].zip, datapackage_fname).content[1].v.resources) = 2

----------------------------------------------------------------------------
(* The archive selector strategies (strategies.py) as pure functions, and   *)
(* the specification that applies them to every bounded input.              *)

FileUris == {"archive_1.wacz", "archive_2.wacz"}
FileInfo == [uri : FileUris, last_modified : 0..MaxInstant]

\* Python None where a URI is expected.
NoUri == [called |-> TRUE, none |-> TRUE, uri |-> ""]
Uri(uri) == [called |-> TRUE, none |-> FALSE, uri |-> uri]

\* FileInfo.__lt__
FileInfo_lt(self, other) == self.last_modified < other.last_modified

\* One step of a stable sort that compares with __lt__ only: x goes before
\* the first element it must precede.
RECURSIVE Insert(_, _, _)
Insert(x, s, reverse) ==
    IF s = <<>> THEN <<x>>
    ELSE IF (IF reverse THEN FileInfo_lt(s[1], x) ELSE FileInfo_lt(x, s[1]))
         THEN <<x>> \o s
         ELSE <<s[1]>> \o Insert(x, Tail(s), reverse)

\* sorted(files, reverse=reverse): stable in both directions.
RECURSIVE sorted(_, _)
sorted(s, reverse) ==
    IF s = <<>> THEN <<>>
    ELSE Insert(s[Len(s)], sorted(SubSeq(s, 1, Len(s) - 1), reverse), reverse)

BeforeStrategy_find_mut(fileinfos, target_timestamp) ==
    LET sorted_files == sorted(fileinfos, FALSE)
        hits == {i \in 1..Len(sorted_files) :
                     target_timestamp >= sorted_files[i].last_modified}
    IN  IF hits = {} THEN NoUri
        ELSE Uri(sorted_files[CHOOSE i \in hits : \A j \in hits : i <= j].uri)
BeforeStrategy_find(fileinfos, target_timestamp) ==
    LET sorted_files == sorted(fileinfos, TRUE)
        hits == {i \in 1..Len(sorted_files) :
                     target_timestamp >= sorted_files[i].last_modified}
    IN  IF hits = {} THEN NoUri
        ELSE Uri(sorted_files[CHOOSE i \in hits : \A j \in hits : i <= j].uri)

AfterStrategy_find(fileinfos, target_timestamp) ==
    LET sorted_files == sorted(fileinfos, FALSE)
        hits == {i \in 1..Len(sorted_files) :
                     sorted_files[i].last_modified >= target_timestamp}
    IN  IF hits = {} THEN NoUri
        ELSE Uri(sorted_files[CHOOSE i \in hits : \A j \in hits : i <= j].uri)

InitStrategy ==
    /\ ExporterIdle /\ ReplayIdle /\ StorageIdle /\ CdxjIdle /\ SettingsIdle
    /\ files \in UNION {[1..n -> FileInfo] : n \in 0..MaxFiles}
    /\ target \in 0..MaxInstant
    /\ found = [before |-> [called |-> FALSE], after |-> [called |-> FALSE]]

find_before ==
    /\ ~found.before.called
    /\ found' = [found EXCEPT !.before = BeforeStrategy_find(files, target)]
    /\ UNCHANGED <<files, target>>
    /\ UNCHANGED <<exporter_vars, replay_vars, storage_vars, cdxj_vars, settings_vars>>

find_after ==
    /\ ~found.after.called
    /\ found' = [found EXCEPT !.after = AfterStrategy_find(files, target)]
    /\ UNCHANGED <<files, target>>
    /\ UNCHANGED <<exporter_vars, replay_vars, storage_vars, cdxj_vars, settings_vars>>

NextStrategy == find_before \/ find_after

SpecStrategy == InitStrategy /\ [][NextStrategy]_vars

NotAfterTarget == {i \in 1..Len(files) : files[i].last_modified <= target}
NotBeforeTarget == {i \in 1..Len(files) : files[i].last_modified >= target}

\* C7: BeforeStrategy.find returns the URI of a file with the greatest
\* last_modified among the files with last_modified <= target,
\* AfterStrategy.find the URI of a file with the least last_modified among
\* the files with last_modified >= target, and each returns None exactly
\* when no file satisfies its bound.
C7_StrategyFind ==
    /\ found.before.called =>
          /\ found.before.none <=> NotAfterTarget = {}
          /\ ~found.before.none =>
                \E i \in NotAfterTarget :
                    /\ files[i].uri = found.before.uri
                    /\ \A j \in NotAfterTarget :
                          files[j].last_modified <= files[i].last_modified
    /\ found.after.called =>
          /\ found.after.none <=> NotBeforeTarget = {}
          /\ ~found.after.none =>
                \E i \in NotBeforeTarget :
                    /\ files[i].uri = found.after.uri
                    /\ \A j \in NotBeforeTarget :
                          files[j].last_modified >= files[i].last_modified

C7_Witness ==
    /\ Len(files) = 3
    /\ found.before.called /\ found.after.called
    /\ ~found.before.none /\ ~found.after.none
    /\ Cardinality(NotAfterTarget) = 2
    /\ \E i, j \in NotAfterTarget :
          /\ files[i].last_modified < files[j].last_modified
          /\ files[j].uri = found.before.uri
          /\ files[i].uri # found.before.uri

----------------------------------------------------------------------------
(* The two storage handlers read the same package (SpecStorage): the        *)
(* package is one WaczFileCreator produced from a crawl of up to            *)
(* MaxDownloads responses; every call asks both handlers for the same part. *)

\* The WARC file the exporter leaves after the given downloads, all at the
\* same second: the warcinfo record, then a response and a request each.
RECURSIVE WarcOf(_)
WarcOf(pairs) ==
    IF pairs = <<>> THEN write_record(<<>>, write_warcinfo(0, record_id(0)))
    ELSE LET n == Len(pairs)
             request == [url |-> pairs[n].url, method |-> "GET", body |-> <<>>]
             record == write_response(pairs[n], request, 0, record_id(2 * n - 1))
         IN  write_record(write_record(WarcOf(SubSeq(pairs, 1, n - 1)), record),
                          write_request(request, record, 0, record_id(2 * n)))

StorageResponses == [url : Urls, status : {200}, body : Bodies]

InitStorage ==
    /\ ReplayIdle /\ StrategyIdle /\ CdxjIdle /\ SettingsIdle
    /\ pc = "closed"
    /\ clock = 0
    /\ \E n \in 0..MaxDownloads : \E pairs \in [1..n -> StorageResponses] :
          /\ uuid = 2 * n + 1
          /\ warc_file = WarcOf(pairs)
          /\ packages = <<[by |-> "wacz/creator.py", path |-> wacz_fname, persisted |-> TRUE,
                           zip |-> create_wacz_zip(write_cdxj_index(WarcOf(pairs), warc_fname),
                                                   WarcOf(pairs), 0)]>>
    /\ fs = {}
    /\ stats = [response_written |-> 0, request_written |-> 0,
                writer_status_count |-> [s \in Statuses |-> 0]]
    /\ downloads = <<>>
    /\ reader = [state |-> "none"]
    /\ fetched = [url |-> "", outcome |-> "None", record |-> NoRecord]
    /\ fetched_part = [called |-> FALSE]

\* handler.fetch_file_part(file_name, offset, size) on a LocalZipStorageHandler
\* and on an S3ZipStorageHandler of the same package.
fetch_part(file_name, offset, size) ==
    /\ fetched_part' =
           [called |-> TRUE, file_name |-> file_name, offset |-> offset, size |-> size,
            local |-> LocalZipStorageHandler_fetch_file_part(packages[1].zip, file_name, offset, size),
            s3 |-> S3ZipStorageHandler_fetch_file_part(packages[1].zip, file_name, offset, size)]
    /\ UNCHANGED <<exporter_vars, replay_vars, strategy_vars, cdxj_vars, settings_vars>>

NextStorage ==
    \/ \E i \in 1..Len(packages[1].zip) :
          \E offset \in 0..Len(packages[1].zip[i].content) :
              \E size \in 0..(Len(packages[1].zip[i].content) - offset) :
                  fetch_part(packages[1].zip[i].name, offset, size)
    \/ fetch_part(ARCHIVE_DIR \o "missing.warc.gz", 0, 1)

SpecStorage == InitStorage /\ [][NextStorage]_vars

\* The l bytes of the member that start at o, gunzipped for a .gz member.
ExactPart(zip, file_name, offset, size) ==
    LET slice == SubSeq(Member(zip, file_name).content, offset + 1, offset + size)
    IN  IF EndsWith(file_name, ".gz") THEN GunzipResult(slice) ELSE Ok(slice)

\* C6: for a member m of the package, an offset o and a length l >= 1 inside
\* m (a run of whole gzip members when m ends in .gz), the local handler and
\* the S3 handler return the same bytes: the content of exactly the l bytes
\* of m from o on, and nothing of what follows them.
C6_SameBytes ==
    (/\ fetched_part.called
     /\ fetched_part.file_name \in namelist(packages[1].zip)
     /\ fetched_part.size >= 1
     /\ ExactPart(packages[1].zip, fetched_part.file_name,
                  fetched_part.offset, fetched_part.size).status = "ok") =>
        /\ fetched_part.s3 = ExactPart(packages[1].zip, fetched_part.file_name,
                                       fetched_part.offset, fetched_part.size)
        /\ fetched_part.local = fetched_part.s3

----------------------------------------------------------------------------
(* Crawling from an archive: WaczCrawlMiddleware of spidermiddlewares.py    *)
(* (SpecCrawl).                                                             *)

\* The positions at which sub occurs in string s.
Occurrences(sub, s) ==
    {i \in 1..(Len(s) - Len(sub) + 1) : SubSeq(s, i, i + Len(sub) - 1) = sub}

\* re.search(pattern, string) for a pattern without metacharacters.
re_search(pattern, string) == Occurrences(pattern, string) # {}

\* urlparse(url).hostname of a lower-case URL without userinfo or port.
hostname(url) ==
    LET start == (CHOOSE i \in Occurrences("://", url) :
                      \A j \in Occurrences("://", url) : i <= j) + 3
        slashes == {i \in Occurrences("/", url) : i >= start}
        stop == IF slashes = {} THEN Len(url) + 1
                ELSE CHOOSE i \in slashes : \A j \in slashes : i <= j
    IN  SubSeq(url, start, stop - 1)

\* An attribute the spider may or may not have.
NoAttr == [has |-> FALSE]
Attr(value) == [has |-> TRUE, value |-> value]

_is_off_site_mut(url, s) == FALSE
_is_off_site(url, s) ==
    s.allowed_domains.has /\ hostname(url) \notin s.allowed_domains.value

_is_disallowed_by_spider(url, s) ==
    s.archive_disallow_regexp.has /\ ~re_search(s.archive_disallow_regexp.value, url)

\* MultiWaczFile.iter_index, and WaczFile.iter_index for a single archive.
RECURSIVE MultiWaczFile_iter_index(_)
MultiWaczFile_iter_index(waczs) ==
    IF waczs = <<>> THEN <<>>
    ELSE iter_index(waczs[1].index) \o MultiWaczFile_iter_index(Tail(waczs))

\* record_transformer.request_for_record(entry, flags=..., meta=..., dont_filter=True)
request_for_record(cdxj_record, flags) ==
    [url |-> cdxj_record.data.url, method |-> "GET", flags |-> flags,
     meta |-> [cdxj_record |-> cdxj_record], dont_filter |-> TRUE]

\* The loop of process_start_requests over the entries: the requests
\* yielded and the counters after the last entry.
RECURSIVE crawl_entries(_, _, _, _)
crawl_entries(entries, s, counters, yielded) ==
    IF entries = <<>> THEN [stats |-> counters, requests |-> yielded]
    ELSE LET entry == entries[1]
             url == entry.data.url
             skip == <<"wacz_start_request", "wacz_crawl_skip">>
         IN  IF _is_off_site(url, s)
             THEN crawl_entries(Tail(entries), s,
                      [counters EXCEPT !.off_site = @ + 1],
                      Append(yielded, request_for_record(entry, skip)))
             ELSE IF _is_disallowed_by_spider(url, s)
             THEN crawl_entries(Tail(entries), s,
                      [counters EXCEPT !.disallowed = @ + 1],
                      Append(yielded, request_for_record(entry, skip)))
             ELSE crawl_entries(Tail(entries), s,
                      [counters EXCEPT !.start_request_count = @ + 1],
                      Append(yielded, request_for_record(entry, <<"wacz_start_request">>)))

\* The responses archived in the packages at the configured URIs.
CrawlArchives ==
    {<<>>,
     <<"https://www.goodreads.com/quotes">>,
     <<"https://quotes.toscrape.com/", "https://www.goodreads.com/quotes">>,
     <<"https://quotes.toscrape.com/page/1/", "https://quotes.toscrape.com/",
       "https://quotes.toscrape.com/page/1/">>}

ArchiveOf(urls) ==
    LET warc == WarcOf([i \in 1..Len(urls) |-> [url |-> urls[i], status |-> 200, body |-> <<>>]])
    IN  create_wacz_zip(write_cdxj_index(warc, warc_fname), warc, 0)

\* A configured URI: the package behind it, and whether the storage
\* handler finds it (zip_exists).
Sources == [zip_exists : BOOLEAN, zip : {ArchiveOf(urls) : urls \in CrawlArchives}]

Spiders ==
    [allowed_domains : {NoAttr, Attr({"quotes.toscrape.com"})},
     archive_disallow_regexp : {NoAttr, Attr("/page/")}]

StartRequests ==
    {<<>>, <<[url |-> "https://quotes.toscrape.com", method |-> "GET", flags |-> <<>>,
              meta |-> [none |-> TRUE], dont_filter |-> FALSE]>>}

InitCrawl ==
    /\ ExporterIdle /\ StorageIdle /\ StrategyIdle /\ CdxjIdle /\ SettingsIdle
    /\ spider \in Spiders
    /\ crawl \in BOOLEAN
    /\ \E n \in 1..2 : \E uris \in [1..n -> Sources] :
          wacz = [state |-> "closed", uris |-> uris, waczs |-> <<>>]
    /\ wacz_stats = [off_site |-> 0, disallowed |-> 0, start_request_count |-> 0]
    /\ outcome = [kind |-> "idle"]

\* ZipStorageHandlerFactory.get_handler(wacz_uri, settings) for a file://
\* URI: LocalZipStorageHandler.__init__ raises FileNotFoundError when
\* os.path.exists(file_path) is false, so a handler that is returned always
\* has zip_exists true.
get_handler(wacz_uri) ==
    IF ~wacz_uri.zip_exists
    THEN [raised |-> TRUE, error |-> "FileNotFoundError"]
    ELSE [raised |-> FALSE, zip_exists |-> TRUE, zip |-> wacz_uri.zip]

\* The loop of BaseWaczMiddleware.spider_opened from the n-th URI on:
\* an exception of get_handler leaves the loop and the method.
RECURSIVE OpenAll(_, _, _)
OpenAll(uris, n, wacz_files) ==
    IF n > Len(uris) THEN [raised |-> FALSE, wacz_files |-> wacz_files]
    ELSE LET storage_handler == get_handler(uris[n])
         IN  IF storage_handler.raised
             THEN [raised |-> TRUE, wacz_files |-> wacz_files]
             ELSE IF ~storage_handler.zip_exists
             THEN OpenAll(uris, n + 1, wacz_files)
             ELSE OpenAll(uris, n + 1,
                          Append(wacz_files, WaczFile("local", storage_handler.zip, n)))

\* WaczCrawlMiddleware.spider_opened: nothing is opened unless crawling;
\* self.wacz is assigned after the loop, so it stays unset (waczs empty)
\* when no package could be opened or when the loop raised. The signal
\* dispatcher logs an exception of the handler and the crawl goes on.
WaczCrawlMiddleware_spider_opened ==
    /\ wacz.state = "closed"
    /\ LET opened == IF crawl THEN OpenAll(wacz.uris, 1, <<>>)
                     ELSE [raised |-> FALSE, wacz_files |-> <<>>]
       IN  wacz' = ("raised" :> opened.raised) @@
                   [wacz EXCEPT !.state = "opened",
                                !.waczs = IF opened.raised THEN <<>> ELSE opened.wacz_files]
    /\ UNCHANGED <<spider, crawl, wacz_stats, outcome>>
    /\ UNCHANGED <<exporter_vars, storage_vars, strategy_vars, cdxj_vars, settings_vars>>

\* list(mw.process_start_requests(start_requests, spider))
process_start_requests(start_requests) ==
    /\ wacz.state = "opened"
    /\ outcome.kind = "idle"
    /\ IF ~crawl
       THEN /\ outcome' = [kind |-> "requests", start_requests |-> start_requests,
                           requests |-> start_requests]
            /\ UNCHANGED wacz_stats
       ELSE IF wacz.waczs = <<>>
       THEN /\ outcome' = [kind |-> "WaczMiddlewareException", start_requests |-> start_requests,
                           requests |-> <<>>]
            /\ UNCHANGED wacz_stats
       ELSE LET done == crawl_entries(MultiWaczFile_iter_index(wacz.waczs), spider,
                                      wacz_stats, <<>>)
            IN  /\ outcome' = [kind |-> "requests", start_requests |-> start_requests,
                               requests |-> done.requests]
                /\ wacz_stats' = done.stats
    /\ UNCHANGED <<spider, crawl, wacz>>
    /\ UNCHANGED <<exporter_vars, storage_vars, strategy_vars, cdxj_vars, settings_vars>>

NextCrawl ==
    \/ WaczCrawlMiddleware_spider_opened
    \/ \E start_requests \in StartRequests : process_start_requests(start_requests)

SpecCrawl == InitCrawl /\ [][NextCrawl]_vars

\* The index entries of the opened archives, in iteration order.
Entries == MultiWaczFile_iter_index(wacz.waczs)

Flagged(request) == \E f \in 1..Len(request.flags) : request.flags[f] = "wacz_crawl_skip"

\* Crawl mode with an archive open: one request per index entry, in order,
\* for the entry's URL and carrying the entry.
OnePerEntry ==
    /\ outcome.kind = "requests"
    /\ Len(outcome.requests) = Len(Entries)
    /\ \A i \in 1..Len(Entries) :
          /\ outcome.requests[i].url = Entries[i].data.url
          /\ outcome.requests[i].meta.cdxj_record = Entries[i]

CrawledFromArchive == crawl /\ wacz.waczs # <<>> /\ outcome.kind # "idle"

\* C8 as stated: with crawl mode enabled and an archive open,
\* process_start_requests yields exactly one request per index entry and
\* none of the original start requests, and a yielded request carries
\* wacz_crawl_skip exactly when its URL is off-site or matches the spider's
\* archive_disallow_regexp.
C8_SkipWhenMatches ==
    CrawledFromArchive =>
        /\ OnePerEntry
        /\ \A i \in 1..Len(outcome.requests) :
              Flagged(outcome.requests[i]) <=>
                  \/ /\ spider.allowed_domains.has
                     /\ hostname(Entries[i].data.url) \notin spider.allowed_domains.value
                  \/ /\ spider.archive_disallow_regexp.has
                     /\ re_search(spider.archive_disallow_regexp.value, Entries[i].data.url)

\* C8 amended: as above, but a request carries wacz_crawl_skip exactly when
\* the spider has allowed_domains and the URL's host is not among them, or
\* the spider has an archive_disallow_regexp and the URL does not match it.
C8_SkipUnlessMatches ==
    CrawledFromArchive =>
        /\ OnePerEntry
        /\ \A i \in 1..Len(outcome.requests) :
              Flagged(outcome.requests[i]) <=>
                  \/ /\ spider.allowed_domains.has
                     /\ hostname(Entries[i].data.url) \notin spider.allowed_domains.value
                  \/ /\ spider.archive_disallow_regexp.has
                     /\ ~re_search(spider.archive_disallow_regexp.value, Entries[i].data.url)

C8_Witness ==
    /\ CrawledFromArchive
    /\ outcome.start_requests # <<>>
    /\ spider.allowed_domains.has /\ spider.archive_disallow_regexp.has
    /\ Len(outcome.requests) >= 4
    /\ \E i, j, k \in 1..Len(outcome.requests) :
          /\ ~Flagged(outcome.requests[i])
          /\ Flagged(outcome.requests[j])
          /\ hostname(outcome.requests[j].url) = "quotes.toscrape.com"
          /\ Flagged(outcome.requests[k])
          /\ hostname(outcome.requests[k].url) = "www.goodreads.com"

----------------------------------------------------------------------------
(* Replaying requests from an archive: WaczMiddleware of                    *)
(* downloadermiddlewares.py over WACZFile and MultiWACZFile of utils.py     *)
(* (SpecReplay).                                                            *)

\* The Content-Type header of a WARC record; warcio writes application/http
\* for the HTTP records and application/warc-fields for warcinfo.
ContentType(record) ==
    IF "content_type" \in DOMAIN record THEN record.content_type
    ELSE IF record.type \in {"response", "request", "revisit"}
         THEN "application/http; msgtype=" \o record.type
         ELSE "application/warc-fields"

\* "text/dns; x" -> "text/dns": the part before the first ";".
MediaType(content_type) ==
    IF Occurrences(";", content_type) = {} THEN content_type
    ELSE SubSeq(content_type, 1,
                (CHOOSE i \in Occurrences(";", content_type) :
                     \A j \in Occurrences(";", content_type) : i <= j) - 1)

\* WACZFile._get_index and _parse_index: url -> list of the data of its lines.
RECURSIVE WACZFile_parse_index(_, _)
WACZFile_parse_index(lines, dict) ==
    IF lines = <<>> THEN dict
    ELSE WACZFile_parse_index(Tail(lines), DictAppend(dict, lines[1].v.data.url, lines[1].v.data))

WACZFile_get_index(zip) ==
    IF "indexes/index.cdxj" \in namelist(zip) THEN Member(zip, "indexes/index.cdxj").content
    ELSE Gunzip(Member(zip, "indexes/index.cdxj.gz").content).data

WACZFile_load_index(zip) == WACZFile_parse_index(WACZFile_get_index(zip), <<>>)

\* Python None where an index entry is expected.
NoEntry == [none |-> TRUE]

WACZFile_find_in_index(zip, url) ==
    LET index == WACZFile_load_index(zip)
    IN  IF \E i \in 1..Len(index) : index[i].url = url
        THEN LET i == CHOOSE i \in 1..Len(index) : index[i].url = url
             IN  index[i].records[Len(index[i].records)]
        ELSE NoEntry

\* WACZFile.get_record of an index entry: [outcome, record] with outcome
\* "record", "None" or the exception that escapes.
WACZFile_get_record_of(zip, entry) ==
    IF ARCHIVE_DIR \o entry.filename \notin namelist(zip)
    THEN [outcome |-> "None", record |-> NoRecord]
    ELSE LET content == Member(zip, ARCHIVE_DIR \o entry.filename).content
             rest == SubSeq(content, entry.offset + 1, Len(content))
             stream == IF EndsWith(entry.filename, ".gz") THEN GunzipResult(rest) ELSE Ok(rest)
         IN  IF stream.status # "ok" THEN [outcome |-> stream.status, record |-> NoRecord]
             ELSE IF stream.data = <<>> THEN [outcome |-> "None", record |-> NoRecord]
             ELSE [outcome |-> "record", record |-> read_record(stream.data)]

WACZFile_get_record(zip, url) ==
    IF WACZFile_find_in_index(zip, url) = NoEntry
    THEN [outcome |-> "None", record |-> NoRecord]
    ELSE WACZFile_get_record_of(zip, WACZFile_find_in_index(zip, url))

\* MultiWACZFile.get_record(url): the first archive that returns a record.
RECURSIVE MultiWACZFile_get_record(_, _)
MultiWACZFile_get_record(zips, url) ==
    IF zips = <<>> THEN [outcome |-> "None", record |-> NoRecord]
    ELSE LET r == WACZFile_get_record(zips[1], url)
         IN  IF r.outcome = "None" THEN MultiWACZFile_get_record(Tail(zips), url) ELSE r

\* self.wacz.get_record(url_or_record): a WACZFile for one URL, a
\* MultiWACZFile otherwise; an entry of a MultiWACZFile names its archive.
get_record(zips, url_or_record) ==
    IF url_or_record.is_str
    THEN IF Len(zips) = 1 THEN WACZFile_get_record(zips[1], url_or_record.url)
         ELSE MultiWACZFile_get_record(zips, url_or_record.url)
    ELSE IF Len(zips) = 1 THEN WACZFile_get_record_of(zips[1], url_or_record.entry)
         ELSE WACZFile_get_record_of(zips[url_or_record.wacz_file], url_or_record.entry)

\* WaczMiddleware._response_for_record: a response, None, or the exception.
\* A record status of 0 stands for a payload without a status line, a
\* negative one for a status that is not a number.
NoResponse == [kind |-> "None"]
_response_for_record_mut(record) ==
    [kind |-> "response", url |-> record.uri, status |-> 200, body |-> record.body]
_response_for_record(record) ==
    IF record.type # "response" THEN [kind |-> "WaczMiddlewareException"]
    ELSE IF MediaType(ContentType(record)) # "application/http"
         THEN [kind |-> "WaczMiddlewareException"]
    ELSE IF record.status = 0 THEN NoResponse
    ELSE IF record.status < 0 THEN [kind |-> "ValueError"]
    ELSE [kind |-> "response", url |-> record.uri, status |-> record.status,
          body |-> record.body]

\* The records found in replayed archives: responses as the exporter
\* writes them, and records other tools write.
ReplayRecord(type, uri, status, body) ==
    WarcRecord(WARC_VERSION, type, uri, 0, 1, 0, status, "", body)

LoveUrl == "https://quotes.toscrape.com/tag/love/"
RootUrl == "https://quotes.toscrape.com/"

\* The WARC contents of the archives at the configured URLs.
ReplayWarcs ==
    {<<ReplayRecord("response", LoveUrl, 200, <<104>>), ReplayRecord("response", RootUrl, 404, <<>>)>>,
     <<ReplayRecord("response", RootUrl, 200, <<104>>)>>,
     <<ReplayRecord("revisit", LoveUrl, 0, <<>>)>>,
     <<ReplayRecord("response", LoveUrl, 200, <<>>) @@ [content_type |-> "text/dns"]>>,
     <<ReplayRecord("response", LoveUrl, 0, <<>>)>>,
     <<ReplayRecord("response", LoveUrl, -1, <<>>)>>}

RECURSIVE GzipAll(_)
GzipAll(records) ==
    IF records = <<>> THEN <<>> ELSE GzipMember(records[1]) \o GzipAll(Tail(records))

\* A package of the given records; without_warc leaves the WARC member out,
\* as in a package whose index names a file it does not hold.
ReplayArchive(records, without_warc) ==
    LET zip == create_wacz_zip(write_cdxj_index(GzipAll(records), warc_fname),
                               GzipAll(records), 0)
    IN  IF without_warc THEN SelectSeq(zip, LAMBDA m : m.name # ARCHIVE_DIR \o warc_fname)
        ELSE zip

ReplayArchives ==
    {ReplayArchive(records, FALSE) : records \in ReplayWarcs}
    \cup {ReplayArchive(<<ReplayRecord("response", LoveUrl, 200, <<104>>)>>, TRUE)}

\* The archives configured together with others.
MultiArchives ==
    {ReplayArchive(<<ReplayRecord("response", LoveUrl, 200, <<104>>),
                    ReplayRecord("response", RootUrl, 404, <<>>)>>, FALSE),
     ReplayArchive(<<ReplayRecord("response", RootUrl, 200, <<104>>)>>, FALSE),
     ReplayArchive(<<ReplayRecord("response", LoveUrl, 200, <<104>>)>>, TRUE)}

ReplaySpiders == [archive_blacklist_regexp : {NoAttr, Attr("/tag/")}]

ReplayRequestUrls == {LoveUrl, RootUrl, "http://www.example.com/"}

\* WACZFile.iter_index: the entries by URL, and per URL in file order.
RECURSIVE WACZFile_iter_index(_)
WACZFile_iter_index(index) ==
    IF index = <<>> THEN <<>> ELSE index[1].records \o WACZFile_iter_index(Tail(index))

\* The entries iter_index yields, each with the archive it came from, as
\* a request carries them in meta["wacz_index_entry"].
IndexEntries(zips) ==
    UNION {{[is_str |-> FALSE,
             url |-> WACZFile_iter_index(WACZFile_load_index(zips[a]))[k].url,
             entry |-> WACZFile_iter_index(WACZFile_load_index(zips[a]))[k],
             wacz_file |-> a] :
                k \in 1..Len(WACZFile_iter_index(WACZFile_load_index(zips[a])))} :
           a \in 1..Len(zips)}

InitReplay ==
    /\ ExporterIdle /\ StorageIdle /\ StrategyIdle /\ CdxjIdle /\ SettingsIdle
    /\ spider \in ReplaySpiders
    /\ crawl \in BOOLEAN
    /\ \E zips \in [1..1 -> ReplayArchives] \cup [1..2 -> MultiArchives] :
          wacz = [state |-> "closed", zips |-> zips]
    /\ wacz_stats = [request_blacklisted |-> 0, crawl_skip |-> 0,
                     response_not_recognized |-> 0, hit |-> 0, response_not_found |-> 0]
    /\ outcome = [kind |-> "idle"]

\* WaczMiddleware.spider_opened: a WACZFile or a MultiWACZFile on the URLs.
WaczMiddleware_spider_opened ==
    /\ wacz.state = "closed"
    /\ wacz' = [wacz EXCEPT !.state = "opened"]
    /\ UNCHANGED <<spider, crawl, wacz_stats, outcome>>
    /\ UNCHANGED <<exporter_vars, storage_vars, strategy_vars, cdxj_vars, settings_vars>>

\* WaczMiddleware.process_request(request, spider); request.key is
\* request.meta.get("wacz_index_entry", request.url).
process_request(request) ==
    /\ wacz.state = "opened"
    /\ outcome.kind = "idle"
    /\ LET blacklisted == /\ spider.archive_blacklist_regexp.has
                          /\ re_search(spider.archive_blacklist_regexp.value, request.url)
           skipped == crawl /\ request.skip
           got == get_record(wacz.zips, request.key)
           response == IF got.outcome = "record" THEN _response_for_record(got.record)
                       ELSE NoResponse
           done(kind, counter) ==
               /\ outcome' = [kind |-> kind, request |-> request]
               /\ wacz_stats' = [wacz_stats EXCEPT ![counter] = @ + 1]
       IN  IF blacklisted THEN done("IgnoreRequest", "request_blacklisted")
           ELSE IF skipped THEN done("IgnoreRequest", "crawl_skip")
           ELSE IF got.outcome \notin {"record", "None"}
                THEN /\ outcome' = [kind |-> got.outcome, request |-> request]
                     /\ UNCHANGED wacz_stats
           ELSE IF got.outcome = "None"
                THEN /\ outcome' = [kind |-> "response", request |-> request,
                                    url |-> request.url, status |-> 404, body |-> <<>>]
                     /\ wacz_stats' = [wacz_stats EXCEPT !.response_not_found = @ + 1]
           ELSE IF response = NoResponse THEN done("IgnoreRequest", "response_not_recognized")
           ELSE IF response.kind # "response"
                THEN /\ outcome' = [kind |-> response.kind, request |-> request]
                     /\ UNCHANGED wacz_stats
           ELSE /\ outcome' = response @@ [request |-> request]
                /\ wacz_stats' = [wacz_stats EXCEPT !.hit = @ + 1]
    /\ UNCHANGED <<spider, crawl, wacz>>
    /\ UNCHANGED <<exporter_vars, storage_vars, strategy_vars, cdxj_vars, settings_vars>>

NextReplay ==
    \/ WaczMiddleware_spider_opened
    \/ \E url \in ReplayRequestUrls, skip \in BOOLEAN :
          process_request([url |-> url, skip |-> skip, has_entry |-> FALSE,
                           key |-> [is_str |-> TRUE, url |-> url]])
    \/ \E key \in IndexEntries(wacz.zips), skip \in BOOLEAN :
          process_request([url |-> key.url, skip |-> skip, has_entry |-> TRUE, key |-> key])

SpecReplay == InitReplay /\ [][NextReplay]_vars

\* A request the middleware serves from the archive: not blacklisted, not
\* flagged to be skipped while crawling, looked up by its URL.
NormalRequest(request) ==
    /\ ~request.has_entry
    /\ ~(spider.archive_blacklist_regexp.has
         /\ re_search(spider.archive_blacklist_regexp.value, request.url))
    /\ ~(crawl /\ request.skip)

InIndex(zip, url) ==
    \E i \in 1..Len(Member(zip, "indexes/index.cdxj").content) :
        Member(zip, "indexes/index.cdxj").content[i].v.data.url = url

\* The archives that list the URL and hold the WARC file their entry names.
Holding(url) ==
    {a \in 1..Len(wacz.zips) :
        /\ InIndex(wacz.zips[a], url)
        /\ ARCHIVE_DIR \o warc_fname \in namelist(wacz.zips[a])}

\* The record archived for the URL: in the first archive holding it, the
\* record of the last index line of the URL.
Archived(url) ==
    LET zip == wacz.zips[CHOOSE a \in Holding(url) : \A b \in Holding(url) : a <= b]
        lines == Member(zip, "indexes/index.cdxj").content
        last == CHOOSE i \in 1..Len(lines) :
                    /\ lines[i].v.data.url = url
                    /\ \A j \in 1..Len(lines) : lines[j].v.data.url = url => j <= i
        members == GunzipFrom(Member(zip, ARCHIVE_DIR \o warc_fname).content, 1).members
    IN  members[CHOOSE m \in 1..Len(members) :
                    members[m].offset = lines[last].v.data.offset].rec

OnlyCounted(counter) ==
    \A c \in DOMAIN wacz_stats : wacz_stats[c] = IF c = counter THEN 1 ELSE 0

\* C3: process_request of a normal request whose URL an opened archive
\* holds as an HTTP response record with a status line returns the response
\* synthesized from that record, with the archived status, and increments
\* hit; for a URL in no opened index it returns a 404 response for the
\* request URL and increments response_not_found, without raising.
C3_HitAndMiss ==
    (outcome.kind # "idle" /\ NormalRequest(outcome.request)) =>
        LET url == outcome.request.url
        IN  /\ (/\ Holding(url) # {}
                /\ Archived(url).type = "response"
                /\ MediaType(ContentType(Archived(url))) = "application/http"
                /\ Archived(url).status > 0) =>
                   /\ outcome.kind = "response"
                   /\ outcome.url = url
                   /\ outcome.status = Archived(url).status
                   /\ outcome.body = Archived(url).body
                   /\ OnlyCounted("hit")
            /\ (\A a \in 1..Len(wacz.zips) : ~InIndex(wacz.zips[a], url)) =>
                   /\ outcome.kind = "response"
                   /\ outcome.url = url
                   /\ outcome.status = 404
                   /\ OnlyCounted("response_not_found")

C3_Witness ==
    /\ outcome.kind = "response"
    /\ NormalRequest(outcome.request)
    /\ outcome.request.url = RootUrl
    /\ Len(wacz.zips) = 2
    /\ Holding(RootUrl) = {1, 2}
    /\ outcome.status = 404
    /\ Archived(RootUrl).status = 404
    /\ wacz_stats.hit = 1

\* C4: every process_request call ends in a synthesized response, a
\* synthesized 404 or a dropped request (IgnoreRequest); when the record
\* found for the request is not of type response, response_not_recognized
\* is incremented and the request is dropped.
C4_ResponseOrDropped ==
    outcome.kind # "idle" =>
        /\ outcome.kind \in {"response", "IgnoreRequest"}
        /\ (/\ NormalRequest(outcome.request)
            /\ Holding(outcome.request.url) # {}
            /\ Archived(outcome.request.url).type # "response") =>
               /\ outcome.kind = "IgnoreRequest"
               /\ wacz_stats.response_not_recognized = 1

----------------------------------------------------------------------------
(* WaczFileCreator.create of wacz/creator.py, one statement after another,  *)
(* any of which may raise (SpecCreate): the WARC file of a crawl of up to   *)
(* MaxDownloads responses is on the disk when create is called.             *)

\* The statements of create that do I/O, and "none" for a call in which
\* none of them raises.
CreateRaises == {"none", "write_cdxj_index", "create_wacz_zip", "persist_file"}

InitCreate ==
    /\ ReplayIdle /\ StorageIdle /\ StrategyIdle /\ CdxjIdle /\ SettingsIdle
    /\ pc = "open"
    /\ clock \in 0..MaxClock
    /\ \E n \in 0..MaxDownloads : \E pairs \in [1..n -> StorageResponses] :
          /\ uuid = 2 * n + 1
          /\ warc_file = WarcOf(pairs)
    /\ fs = {"warc"}
    /\ stats = [response_written |-> 0, request_written |-> 0,
                writer_status_count |-> [s \in Statuses |-> 0]]
    /\ downloads = <<>>
    /\ packages = <<>>
    /\ reader = [state |-> "none"]
    /\ fetched = [url |-> "", outcome |-> "None", record |-> NoRecord]

\* create(): write_cdxj_index, create_wacz_zip, cleanup_files, persist_file,
\* with nothing around them that catches: the statement that raises ends
\* the call, and what the earlier statements did stays done. packages holds
\* one entry per persist_file call.
WaczFileCreator_create(raises) ==
    /\ pc = "open"
    /\ LET zip_buffer == create_wacz_zip(write_cdxj_index(warc_file, warc_fname),
                                         warc_file, clock)
       IN  CASE raises = "write_cdxj_index" ->
                  /\ fs' \in {fs, fs \cup {"cdxj"}}
                  /\ packages' = packages
                  /\ pc' = "raised"
             [] raises = "create_wacz_zip" ->
                  /\ fs' = fs \cup {"cdxj"}
                  /\ packages' = packages
                  /\ pc' = "raised"
             [] raises = "persist_file" ->
                  /\ fs' = (fs \cup {"cdxj"}) \ {"cdxj", "warc"}
                  /\ packages' = Append(packages,
                         [by |-> "wacz/creator.py", path |-> wacz_fname,
                          persisted |-> FALSE, zip |-> zip_buffer])
                  /\ pc' = "raised"
             [] OTHER ->
                  /\ create("wacz/creator.py", zip_buffer)
                  /\ pc' = "closed"
    /\ UNCHANGED <<clock, uuid, warc_file, stats, downloads, reader, fetched>>
    /\ UNCHANGED <<replay_vars, storage_vars, strategy_vars, cdxj_vars, settings_vars>>

NextCreate == \E raises \in CreateRaises : WaczFileCreator_create(raises)

SpecCreate == InitCreate /\ [][NextCreate]_vars

\* C11: once create has ended, by returning or by raising at any statement,
\* neither the temporary CDXJ index nor the WARC file is left on the disk.
C11_TemporaryFilesRemoved ==
    pc \in {"closed", "raised"} => fs \cap {"cdxj", "warc"} = {}

\* C12: a call of create that returns has called persist_file exactly once,
\* under the WACZ file name, with a ZIP of exactly three members: the index
\* under indexes/, the WARC under archive/, and datapackage.json.
C12_PersistedOnce ==
    pc = "closed" =>
        /\ Len(packages) = 1
        /\ packages[1].path = wacz_fname
        /\ Len(packages[1].zip) = 3
        /\ {packages[1].zip[i].name : i \in 1..3} =
               {INDEXES_DIR \o cdxj_fname, ARCHIVE_DIR \o warc_fname, datapackage_fname}
        /\ Member(packages[1].zip, ARCHIVE_DIR \o warc_fname).content = warc_file
        /\ Member(packages[1].zip, INDEXES_DIR \o cdxj_fname).content =
               write_cdxj_index(warc_file, warc_fname)

C12_Witness ==
    /\ pc = "closed"
    /\ Len(packages) = 1
    /\ Len(GunzipFrom(warc_file, 1).members) = 5
    /\ Len(Member(packages[1].zip, INDEXES_DIR \o cdxj_fname).content) = 2

----------------------------------------------------------------------------
(* The exporter's counters (Spec).                                          *)

RECURSIVE SumOver(_, _)
SumOver(count, codes) ==
    IF codes = {} THEN 0
    ELSE LET code == CHOOSE c \in codes : TRUE
         IN  count[code] + SumOver(count, codes \ {code})

\* C13: after n response_downloaded events, response_written and
\* request_written both equal n, writer_status_count/<code> equals the number
\* of those events whose response had that status, and the counts of all
\* status codes add up to n.
C13_Counters ==
    /\ stats.response_written = Len(downloads)
    /\ stats.request_written = Len(downloads)
    /\ \A code \in Statuses :
          stats.writer_status_count[code] =
              Cardinality({n \in 1..Len(downloads) : downloads[n].response.status = code})
    /\ SumOver(stats.writer_status_count, Statuses) = Len(downloads)

C13_Witness ==
    /\ Len(downloads) = 2
    /\ stats.response_written = 2
    /\ stats.request_written = 2
    /\ stats.writer_status_count[200] = 1
    /\ stats.writer_status_count[404] = 1

----------------------------------------------------------------------------
(* Parsing one CDXJ line: CDXREC and CdxjRecord.from_cdxline of cdxj.py,    *)
(* character by character (SpecCdxj).  A line is put together from a SURT,  *)
(* a separator, a datetime, a separator, a data text and a tail, each drawn *)
(* from a few well-formed and ill-formed texts.                             *)

Char(s, i) == SubSeq(s, i, i)
Digit == {"0", "1", "2", "3", "4", "5", "6", "7", "8", "9"}
\* \s of the regular expression, and what str.strip() removes.
Whitespace == {" ", "\t"}

\* str.strip()
RECURSIVE strip(_)
strip(s) ==
    IF s = "" THEN s
    ELSE IF Char(s, 1) \in Whitespace THEN strip(SubSeq(s, 2, Len(s)))
    ELSE IF Char(s, Len(s)) \in Whitespace THEN strip(SubSeq(s, 1, Len(s) - 1))
    ELSE s

\* The end of the longest run from position i on of characters outside
\* stop (a greedy [^...]* ): the position of the first character after it.
RECURSIVE RunEnd(_, _, _)
RunEnd(s, i, stop) ==
    IF i > Len(s) \/ Char(s, i) \in stop THEN i ELSE RunEnd(s, i + 1, stop)

\* \d{n} at position i.
IsDigits(s, i, n) ==
    /\ i + n - 1 <= Len(s)
    /\ \A j \in i..(i + n - 1) : Char(s, j) \in Digit

\* The position of the last "}" of s, 0 when there is none.
RECURSIVE LastBrace(_, _)
LastBrace(s, i) ==
    IF i = 0 THEN 0 ELSE IF Char(s, i) = "}" THEN i ELSE LastBrace(s, i - 1)

NoMatch == [matched |-> FALSE]

\* CDXREC.match(line): the pattern is anchored at the start of the line
\* only, every quantifier is greedy, and no shorter choice of a group lets
\* the rest match, so the groups are the longest runs.
CDXREC_match(line) ==
    LET n == Len(line)
        host_end == RunEnd(line, 1, {")"} \cup Whitespace)
        path_end == RunEnd(line, host_end + 1, {"?"} \cup Whitespace)
        query_end == RunEnd(line, path_end + 1, Whitespace)
        has_query == /\ path_end <= n
                     /\ Char(line, path_end) = "?"
                     /\ query_end > path_end + 1
        surt_end == IF has_query THEN query_end ELSE path_end
        dt == surt_end + 1
        dt_end == IF IsDigits(line, dt, 17) THEN dt + 17 ELSE dt + 14
        data_end == LastBrace(line, n)
    IN  IF /\ host_end > 1
           /\ host_end <= n
           /\ Char(line, host_end) = ")"
           /\ surt_end <= n
           /\ Char(line, surt_end) \in Whitespace
           /\ IsDigits(line, dt, 14)
           /\ dt_end <= n
           /\ Char(line, dt_end) \in Whitespace
           /\ dt_end + 1 <= n
           /\ Char(line, dt_end + 1) = "{"
           /\ data_end > dt_end + 1
        THEN [matched |-> TRUE,
              surt |-> SubSeq(line, 1, surt_end - 1),
              host |-> SubSeq(line, 1, host_end - 1),
              path |-> SubSeq(line, host_end + 1, path_end - 1),
              query |-> IF has_query THEN SubSeq(line, path_end + 1, query_end - 1) ELSE "",
              datetime |-> SubSeq(line, dt, dt_end - 1),
              year |-> SubSeq(line, dt, dt + 3),
              month |-> SubSeq(line, dt + 4, dt + 5),
              day |-> SubSeq(line, dt + 6, dt + 7),
              hour |-> SubSeq(line, dt + 8, dt + 9),
              minute |-> SubSeq(line, dt + 10, dt + 11),
              second |-> SubSeq(line, dt + 12, dt + 13),
              data |-> SubSeq(line, dt_end + 1, data_end)]
        ELSE NoMatch

\* json.loads for the JSON texts these lines carry: objects whose keys are
\* strings without escapes and whose values are such strings, unsigned
\* integers or objects.  A parse gives [ok, next, value]; an object decodes
\* to a function from its keys, a string to [str |-> ...], an integer to
\* [num |-> its digits].
JsonFail == [ok |-> FALSE, next |-> 0, value |-> [none |-> TRUE]]

RECURSIVE SkipWhitespace(_, _)
SkipWhitespace(s, i) ==
    IF i <= Len(s) /\ Char(s, i) \in Whitespace THEN SkipWhitespace(s, i + 1) ELSE i

RECURSIVE DigitsEnd(_, _)
DigitsEnd(s, i) ==
    IF i <= Len(s) /\ Char(s, i) \in Digit THEN DigitsEnd(s, i + 1) ELSE i

JsonString(s, i) ==
    LET close == RunEnd(s, i + 1, {"\""})
    IN  IF i <= Len(s) /\ Char(s, i) = "\"" /\ close <= Len(s)
        THEN [ok |-> TRUE, next |-> close + 1, value |-> SubSeq(s, i + 1, close - 1)]
        ELSE JsonFail

RECURSIVE JsonValue(_, _)
RECURSIVE JsonMembers(_, _, _)
JsonObject(s, i) ==
    LET first == SkipWhitespace(s, i + 1)
    IN  IF i > Len(s) \/ Char(s, i) # "{" THEN JsonFail
        ELSE IF first <= Len(s) /\ Char(s, first) = "}"
             THEN [ok |-> TRUE, next |-> first + 1, value |-> <<>>]
             ELSE JsonMembers(s, first, <<>>)

\* key ":" value, then "," and the next member, or "}".
JsonMembers(s, i, dict) ==
    LET key == JsonString(s, i)
        colon == SkipWhitespace(s, key.next)
        val == JsonValue(s, SkipWhitespace(s, colon + 1))
        after == SkipWhitespace(s, val.next)
        sofar == (key.value :> val.value) @@ dict
    IN  IF ~key.ok \/ colon > Len(s) \/ Char(s, colon) # ":" THEN JsonFail
        ELSE IF ~val.ok \/ after > Len(s) THEN JsonFail
        ELSE IF Char(s, after) = "}" THEN [ok |-> TRUE, next |-> after + 1, value |-> sofar]
        ELSE IF Char(s, after) = "," THEN JsonMembers(s, SkipWhitespace(s, after + 1), sofar)
        ELSE JsonFail

JsonValue(s, i) ==
    IF i > Len(s) THEN JsonFail
    ELSE IF Char(s, i) = "\""
         THEN LET str == JsonString(s, i)
              IN  IF str.ok THEN [str EXCEPT !.value = [str |-> str.value]] ELSE JsonFail
    ELSE IF Char(s, i) = "{" THEN JsonObject(s, i)
    ELSE IF Char(s, i) \in Digit
         THEN [ok |-> TRUE, next |-> DigitsEnd(s, i),
               value |-> [num |-> SubSeq(s, i, DigitsEnd(s, i) - 1)]]
    ELSE JsonFail

\* json.loads(text): one value with nothing but whitespace around it;
\* anything else raises json.JSONDecodeError, a ValueError.
json_loads(text) ==
    LET val == JsonValue(text, SkipWhitespace(text, 1))
    IN  IF val.ok /\ SkipWhitespace(text, val.next) > Len(text)
        THEN [ok |-> TRUE, value |-> val.value]
        ELSE [ok |-> FALSE, value |-> [none |-> TRUE]]

\* CdxjRecord.from_cdxline(cdxline, wacz_file)
CdxjRecord_from_cdxline(line, wacz_file) ==
    LET m == CDXREC_match(strip(line))
    IN  IF ~m.matched
        THEN [called |-> TRUE, ok |-> FALSE, exception |-> "ValueError"]
        ELSE IF ~json_loads(m.data).ok
        THEN [called |-> TRUE, ok |-> FALSE, exception |-> "ValueError"]
        ELSE [called |-> TRUE, ok |-> TRUE,
              record |-> [surt |-> m.surt, host |-> m.host, path |-> m.path,
                          query |-> m.query, datetime |-> m.datetime,
                          year |-> m.year, month |-> m.month, day |-> m.day,
                          hour |-> m.hour, minute |-> m.minute, second |-> m.second,
                          data |-> json_loads(m.data).value, wacz_file |-> wacz_file]]

\* The pieces of the lines: well-formed ones with what they stand for, and
\* ill-formed ones.
Surts ==
    ("com,example)/index" :> [host |-> "com,example", path |-> "/index", query |-> ""]) @@
    ("com,example)/index?page=2" :> [host |-> "com,example", path |-> "/index", query |-> "page=2"]) @@
    ("com,example)" :> [host |-> "com,example", path |-> "", query |-> ""])
BadSurts == {"com,example/index", ""}

Datetimes ==
    ("20241003214559" :> [year |-> "2024", month |-> "10", day |-> "03",
                          hour |-> "21", minute |-> "45", second |-> "59"]) @@
    ("20241003214559123" :> [year |-> "2024", month |-> "10", day |-> "03",
                             hour |-> "21", minute |-> "45", second |-> "59"])
BadDatetimes == {"", "2024100321455", "202410032145591"}

JsonObjects ==
    ("{\"url\": \"http://example.com/index\", \"status\": \"200\"}" :>
        [k \in {"url", "status"} |->
            IF k = "url" THEN [str |-> "http://example.com/index"] ELSE [str |-> "200"]]) @@
    ("{\"length\": 42, \"meta\": {}}" :>
        [k \in {"length", "meta"} |-> IF k = "length" THEN [num |-> "42"] ELSE <<>>]) @@
    ("{}" :> <<>>)
BadJson == {"", "{\"url\": \"http://example.com/index\"", "{url}", "{\"url\": \"x\",}"}

Separators == {" ", "\t", "  "}
Tails == {"", " trailing", " }}"}

CdxLines ==
    [surt : DOMAIN Surts \cup BadSurts,
     sep1 : Separators,
     datetime : DOMAIN Datetimes \cup BadDatetimes,
     sep2 : {" "},
     data : DOMAIN JsonObjects \cup BadJson,
     tail : Tails]

Text(l) == l.surt \o l.sep1 \o l.datetime \o l.sep2 \o l.data \o l.tail

InitCdxj ==
    /\ ExporterIdle /\ ReplayIdle /\ StorageIdle /\ StrategyIdle /\ SettingsIdle
    /\ cdxline \in CdxLines
    /\ from_line = [called |-> FALSE]

from_cdxline_call ==
    /\ ~from_line.called
    /\ from_line' = CdxjRecord_from_cdxline(" " \o Text(cdxline) \o " ", 1)
    /\ UNCHANGED cdxline
    /\ UNCHANGED <<exporter_vars, replay_vars, storage_vars, strategy_vars, settings_vars>>

NextCdxj == from_cdxline_call

SpecCdxj == InitCdxj /\ [][NextCdxj]_vars

\* SURT, one whitespace, DATETIME, one whitespace, JSON object, and nothing
\* after it.
HasCdxjForm(l) ==
    /\ l.surt \in DOMAIN Surts
    /\ l.sep1 \in Whitespace
    /\ l.datetime \in DOMAIN Datetimes
    /\ l.sep2 \in Whitespace
    /\ l.data \in DOMAIN JsonObjects
    /\ l.tail = ""

\* C14: from_cdxline returns a record exactly for a line of the form SURT,
\* whitespace, 14 or 17 digits, whitespace, JSON object; the record's surt,
\* host, path, query and year..second are the corresponding pieces of the
\* line and its data is the decoded object; every other line raises
\* ValueError.
C14_AcceptsExactlyCdxj ==
    from_line.called =>
        IF HasCdxjForm(cdxline)
        THEN /\ from_line.ok
             /\ from_line.record.surt = cdxline.surt
             /\ from_line.record.host = Surts[cdxline.surt].host
             /\ from_line.record.path = Surts[cdxline.surt].path
             /\ from_line.record.query = Surts[cdxline.surt].query
             /\ \A f \in {"year", "month", "day", "hour", "minute", "second"} :
                   from_line.record[f] = Datetimes[cdxline.datetime][f]
             /\ from_line.record.data = JsonObjects[cdxline.data]
        ELSE /\ ~from_line.ok
             /\ from_line.exception = "ValueError"

----------------------------------------------------------------------------
(* Lookup by URL in the reopened package of a crawl (Spec).                 *)

\* The downloads of the crawl whose response had the given URL.
DownloadsOf(url) == {n \in 1..Len(downloads) : downloads[n].response.url = url}

\* C19: the lookup of a URL in the reopened package returns the record of
\* the last index entry for that URL, which is the entry with the greatest
\* datetime among them (the index being in datetime order within a URL),
\* and it returns None exactly when no entry has that URL.
C19_LastEntry ==
    (reader.state = "open" /\ fetched.url # "") =>
        IF DownloadsOf(fetched.url) = {}
        THEN fetched.outcome = "None"
        ELSE LET last == CHOOSE n \in DownloadsOf(fetched.url) :
                             \A m \in DownloadsOf(fetched.url) : m <= n
             IN  /\ fetched.outcome = "record"
                 /\ fetched.record.type = "response"
                 /\ fetched.record.id = downloads[last].response_id
                 /\ fetched.record.body = downloads[last].response.body
                 /\ \A m \in DownloadsOf(fetched.url) :
                       downloads[m].date <= fetched.record.date

C19_Witness ==
    /\ reader.state = "open"
    /\ Len(downloads) = 2
    /\ downloads[1].response.url = downloads[2].response.url
    /\ downloads[1].date < downloads[2].date
    /\ fetched.url = downloads[1].response.url
    /\ fetched.outcome = "record"
    /\ fetched.record.id = downloads[2].response_id

----------------------------------------------------------------------------
(* A member name that is not in the ZIP (SpecStorage).                      *)

\* C17: asked for a part of a member that the ZIP does not hold, the local
\* handler and the S3 handler both raise FileNotFoundError.
C17_NotFoundIsTyped ==
    (fetched_part.called /\ fetched_part.file_name \notin namelist(packages[1].zip)) =>
        /\ fetched_part.local.status = "FileNotFoundError"
        /\ fetched_part.s3.status = "FileNotFoundError"

----------------------------------------------------------------------------
(* Opening a package whose index is stored under any of the four index      *)
(* names (SpecOpen): the package holds the WARC of one to MaxDownloads       *)
(* responses and an index member for each name of a subset of index_paths.   *)

\* The lines of the index member stored under index_paths[i]: the index of
\* the WARC, every line carrying i as its datetime so that the member a
\* reader used can be told from its entries.
IndexLines(lines, i) ==
    [k \in 1..Len(lines) |-> [lines[k] EXCEPT !.v.datetime = i]]

RECURSIVE IndexMembers(_, _, _)
IndexMembers(present, lines, i) ==
    IF i > Len(index_paths) THEN <<>>
    ELSE (IF i \in present
          THEN <<[name |-> index_paths[i], method |-> "STORED",
                  content |-> IF EndsWith(index_paths[i], ".gz")
                              THEN Gzip(IndexLines(lines, i))
                              ELSE IndexLines(lines, i)]>>
          ELSE <<>>)
         \o IndexMembers(present, lines, i + 1)

PackageWithIndexes(present, warc) ==
    write_to_zip(IndexMembers(present, write_cdxj_index(warc, warc_fname), 1),
                 "STORED", warc_fname, ARCHIVE_DIR, warc)

InitOpen ==
    /\ ReplayIdle /\ StorageIdle /\ StrategyIdle /\ CdxjIdle /\ SettingsIdle
    /\ pc = "closed"
    /\ clock = 0
    /\ uuid = 0
    /\ \E n \in 1..MaxDownloads : \E pairs \in [1..n -> StorageResponses] :
          /\ warc_file = WarcOf(pairs)
          /\ \E present \in SUBSET (1..Len(index_paths)) :
                packages = <<[by |-> "other", path |-> wacz_fname, persisted |-> TRUE,
                              zip |-> PackageWithIndexes(present, WarcOf(pairs))]>>
    /\ fs = {}
    /\ stats = [response_written |-> 0, request_written |-> 0,
                writer_status_count |-> [s \in Statuses |-> 0]]
    /\ downloads = <<>>
    /\ reader = [state |-> "none"]
    /\ fetched = [url |-> "", outcome |-> "None", record |-> NoRecord]

NextOpen ==
    \/ \E backend \in {"local", "s3"} : open_wacz(backend)
    \/ \E url \in Urls : lookup(url)

SpecOpen == InitOpen /\ [][NextOpen]_vars

\* The positions in index_paths of the index members the package holds.
PresentIndexes ==
    {i \in 1..Len(index_paths) : index_paths[i] \in namelist(packages[1].zip)}

\* C18: opening the package on either backend uses the first index member
\* that exists, in the order of index_paths, gunzipped once when its name
\* ends in .gz, and raises FileNotFoundError only when there is none.
C18_FirstIndexThatExists ==
    reader.state # "none" =>
        IF PresentIndexes = {} THEN reader.state = "FileNotFoundError"
        ELSE LET first == CHOOSE i \in PresentIndexes : \A j \in PresentIndexes : i <= j
                 entries == iter_index(reader.index)
             IN  /\ reader.state = "open"
                 /\ Len(entries) = Len(write_cdxj_index(warc_file, warc_fname))
                 /\ \A k \in 1..Len(entries) : entries[k].datetime = first

----------------------------------------------------------------------------
(* Several archives behind one MultiWaczFile (SpecMulti): one to            *)
(* MaxArchives packages opened in configured order on one backend; every    *)
(* CdxjRecord carries the position of its WaczFile in the list.             *)

MaxArchives == 2

\* MultiWaczFile.get_warc_from_cdxj_record on waczs[1] whatever the record.
MultiWaczFile_get_warc_from_cdxj_record_mut(waczs, cdxj_record) ==
    get_warc_from_cdxj_record(waczs[1], cdxj_record)

\* cdxj_record.wacz_file.get_warc_from_cdxj_record(cdxj_record)
\*     if cdxj_record.wacz_file else None
MultiWaczFile_get_warc_from_cdxj_record(waczs, cdxj_record) ==
    IF cdxj_record.wacz_file \notin 1..Len(waczs) THEN [outcome |-> "None", record |-> NoRecord]
    ELSE get_warc_from_cdxj_record(waczs[cdxj_record.wacz_file], cdxj_record)

\* MultiWaczFile.get_warc_from_url probing the archives from the last one.
RECURSIVE MultiWaczFile_get_warc_from_url_mut(_, _)
MultiWaczFile_get_warc_from_url_mut(waczs, url) ==
    IF waczs = <<>> THEN [outcome |-> "None", record |-> NoRecord]
    ELSE LET warc_record == get_warc_from_url(waczs[Len(waczs)], url)
         IN  IF warc_record.outcome # "None" THEN warc_record
             ELSE MultiWaczFile_get_warc_from_url_mut(SubSeq(waczs, 1, Len(waczs) - 1), url)

\* for wacz in self.waczs: the first lookup that is not None is returned
\* (an exception of a lookup ends the loop as well).
RECURSIVE MultiWaczFile_get_warc_from_url(_, _)
MultiWaczFile_get_warc_from_url(waczs, url) ==
    IF waczs = <<>> THEN [outcome |-> "None", record |-> NoRecord]
    ELSE LET warc_record == get_warc_from_url(waczs[1], url)
         IN  IF warc_record.outcome # "None" THEN warc_record
             ELSE MultiWaczFile_get_warc_from_url(Tail(waczs), url)

\* Packages that tell apart which archive answered: the same URL is
\* archived with different responses in different packages, twice in one
\* of them, and one package lacks the WARC file its index names.
MultiSources ==
    MultiArchives \cup
    {ReplayArchive(<<ReplayRecord("response", LoveUrl, 404, <<>>),
                     ReplayRecord("response", LoveUrl, 200, <<>>)>>, FALSE)}

InitMulti ==
    /\ ExporterIdle /\ StorageIdle /\ StrategyIdle /\ CdxjIdle /\ SettingsIdle
    /\ spider = [name |-> "idle"]
    /\ crawl = FALSE
    /\ \E backend \in {"local", "s3"} : \E n \in 1..MaxArchives :
          \E zips \in [1..n -> MultiSources] :
              wacz = [state |-> "opened", uris |-> <<>>,
                      waczs |-> [a \in 1..n |-> WaczFile(backend, zips[a], a)]]
    /\ wacz_stats = <<>>
    /\ outcome = [kind |-> "idle"]

\* wacz.get_warc_from_url(url) on the MultiWaczFile
multi_lookup(url) ==
    /\ fetched' = [url |-> url] @@ MultiWaczFile_get_warc_from_url(wacz.waczs, url)
    /\ UNCHANGED <<pc, clock, uuid, warc_file, fs, stats, downloads, packages, reader>>
    /\ UNCHANGED <<replay_vars, storage_vars, strategy_vars, cdxj_vars, settings_vars>>

\* wacz.get_warc_from_cdxj_record(entry) for the i-th entry that
\* wacz.iter_index() yields
multi_fetch(i) ==
    /\ i \in 1..Len(MultiWaczFile_iter_index(wacz.waczs))
    /\ LET cdxj_record == MultiWaczFile_iter_index(wacz.waczs)[i]
       IN  fetched' = [url |-> cdxj_record.data.url, entry |-> cdxj_record] @@
                      MultiWaczFile_get_warc_from_cdxj_record(wacz.waczs, cdxj_record)
    /\ UNCHANGED <<pc, clock, uuid, warc_file, fs, stats, downloads, packages, reader>>
    /\ UNCHANGED <<replay_vars, storage_vars, strategy_vars, cdxj_vars, settings_vars>>

NextMulti ==
    \/ \E url \in ReplayRequestUrls : multi_lookup(url)
    \/ \E i \in 1..(2 * MaxArchives) : multi_fetch(i)

SpecMulti == InitMulti /\ [][NextMulti]_vars

\* The lines of the index member of a package, and its WARC records.
IndexOf(zip) == Member(zip, INDEXES_DIR \o cdxj_fname).content
HoldsWarc(zip) == ARCHIVE_DIR \o warc_fname \in namelist(zip)
WarcMembers(zip) == GunzipFrom(Member(zip, ARCHIVE_DIR \o warc_fname).content, 1).members

\* The archives, by position, whose index has a line for the URL.
ArchivesWith(url) ==
    {a \in 1..Len(wacz.waczs) :
        \E k \in 1..Len(IndexOf(wacz.waczs[a].zip)) :
            IndexOf(wacz.waczs[a].zip)[k].v.data.url = url}

\* The record the last index line for the URL points at.
LastRecordOf(zip, url) ==
    LET ks == {k \in 1..Len(IndexOf(zip)) : IndexOf(zip)[k].v.data.url = url}
        last == CHOOSE k \in ks : \A j \in ks : j <= k
        at == CHOOSE m \in 1..Len(WarcMembers(zip)) :
                  WarcMembers(zip)[m].offset = IndexOf(zip)[last].v.data.offset
    IN  WarcMembers(zip)[at].rec

\* C15: with every archive holding the WARC file its index names, a lookup
\* by URL returns the record of the first archive, in configured order,
\* whose index has the URL - also when that is not the first archive of the
\* list - and None when no archive's index has it.
C15_FirstArchiveWins ==
    (/\ fetched.url # ""
     /\ "entry" \notin DOMAIN fetched
     /\ \A a \in 1..Len(wacz.waczs) : HoldsWarc(wacz.waczs[a].zip)) =>
        IF ArchivesWith(fetched.url) = {} THEN fetched.outcome = "None"
        ELSE LET first == CHOOSE a \in ArchivesWith(fetched.url) :
                              \A b \in ArchivesWith(fetched.url) : a <= b
             IN  /\ fetched.outcome = "record"
                 /\ fetched.record = LastRecordOf(wacz.waczs[first].zip, fetched.url)

C15_Witness ==
    /\ Len(wacz.waczs) = 2
    /\ "entry" \notin DOMAIN fetched
    /\ \A a \in 1..2 : HoldsWarc(wacz.waczs[a].zip)
    /\ fetched.url = LoveUrl
    /\ ArchivesWith(LoveUrl) = {1, 2}
    /\ fetched.outcome = "record"
    /\ fetched.record = LastRecordOf(wacz.waczs[1].zip, LoveUrl)
    /\ fetched.record # LastRecordOf(wacz.waczs[2].zip, LoveUrl)

\* A URL that only the second archive has is found there.
C15_WitnessLater ==
    /\ Len(wacz.waczs) = 2
    /\ "entry" \notin DOMAIN fetched
    /\ fetched.url = RootUrl
    /\ ArchivesWith(RootUrl) = {2}
    /\ fetched.outcome = "record"

\* The entries MultiWaczFile.iter_index yields.
MultiEntries == MultiWaczFile_iter_index(wacz.waczs)

\* C20: iter_index yields the entries of the first archive, then those of
\* the second, and so on, each archive contributing one entry per line of
\* its index; and get_warc_from_cdxj_record for a yielded entry reads the
\* archive the entry was parsed from, at the entry's filename, offset and
\* length: it returns the record stored there, and no record when that
\* archive lacks the file, whatever the other archives hold.
C20_EntriesAndDispatch ==
    /\ \A i, j \in 1..Len(MultiEntries) :
          i <= j => MultiEntries[i].wacz_file <= MultiEntries[j].wacz_file
    /\ \A a \in 1..Len(wacz.waczs) :
          LET own == {i \in 1..Len(MultiEntries) : MultiEntries[i].wacz_file = a}
          IN  /\ Cardinality(own) = Len(IndexOf(wacz.waczs[a].zip))
              /\ \A i \in own : \E k \in 1..Len(IndexOf(wacz.waczs[a].zip)) :
                    MultiEntries[i].data = IndexOf(wacz.waczs[a].zip)[k].v.data
    /\ "entry" \in DOMAIN fetched =>
          LET zip == wacz.waczs[fetched.entry.wacz_file].zip
          IN  IF ~HoldsWarc(zip) THEN fetched.outcome # "record"
              ELSE /\ fetched.outcome = "record"
                   /\ fetched.entry.data.filename = warc_fname
                   /\ \E m \in 1..Len(WarcMembers(zip)) :
                         /\ WarcMembers(zip)[m].offset = fetched.entry.data.offset
                         /\ WarcMembers(zip)[m].length = fetched.entry.data.length
                         /\ WarcMembers(zip)[m].rec = fetched.record

C20_Witness ==
    /\ Len(wacz.waczs) = 2
    /\ "entry" \in DOMAIN fetched
    /\ fetched.entry.wacz_file = 2
    /\ fetched.entry.data.offset > 0
    /\ HoldsWarc(wacz.waczs[1].zip) /\ HoldsWarc(wacz.waczs[2].zip)
    /\ wacz.waczs[1].zip # wacz.waczs[2].zip
    /\ fetched.outcome = "record"
    /\ fetched.record.uri = fetched.entry.data.url

----------------------------------------------------------------------------
(* Which components a configuration enables (SpecSettings): the settings    *)
(* are drawn from set and unset values of the four keys, the files the      *)
(* resolver finds from none, one and two; the exporter and the middleware   *)
(* are each constructed from them.  "" stands for an unset key (None),      *)
(* which is as falsy as the empty string.                                   *)

LookupTarget == "2024-10-04T08:27:11Z"

Settings ==
    [SW_EXPORT_URI : {"", "/archive/quotes.wacz", "/archive/", "s3://bucket/{spider}/"},
     SW_WACZ_SOURCE_URI : {"", "file:///archive/quotes.wacz",
                           "s3://bucket/quotes.wacz , s3://bucket/goodreads.wacz"},
     SW_WACZ_LOOKUP_TARGET : {"", LookupTarget},
     SW_WACZ_LOOKUP_STRATEGY : {"", "before", "after", "nearest"}]

\* WaczExporter._check_configuration_prerequisites
_check_configuration_prerequisites(s) ==
    IF s.SW_EXPORT_URI = "" THEN "NotConfigured"
    ELSE IF s.SW_WACZ_SOURCE_URI # "" THEN "NotConfigured"
    ELSE "ok"

RECURSIVE lstrip(_)
lstrip(s) ==
    IF s # "" /\ Char(s, 1) \in Whitespace THEN lstrip(SubSeq(s, 2, Len(s))) ELSE s

RECURSIVE rstrip(_)
rstrip(s) ==
    IF s # "" /\ Char(s, Len(s)) \in Whitespace THEN rstrip(SubSeq(s, 1, Len(s) - 1)) ELSE s

\* re.split(r"\s*,\s*", string)
RECURSIVE re_split(_)
re_split(string) ==
    IF Occurrences(",", string) = {} THEN <<string>>
    ELSE LET i == CHOOSE c \in Occurrences(",", string) :
                      \A d \in Occurrences(",", string) : c <= d
         IN  <<rstrip(SubSeq(string, 1, i - 1))>>
             \o re_split(lstrip(SubSeq(string, i + 1, Len(string))))

\* utils.is_uri_directory: the URI names a directory.
is_uri_directory(uri) == EndsWith(uri, "/")

\* utils.extract_base_from_uri_template: the characters before the first "{".
extract_base_from_uri_template(uri_template) ==
    IF Occurrences("{", uri_template) = {} THEN uri_template
    ELSE SubSeq(uri_template, 1,
                (CHOOSE c \in Occurrences("{", uri_template) :
                     \A d \in Occurrences("{", uri_template) : c <= d) - 1)

\* utils.parse_iso8601_datetime: None for None; the instant of the text.
parse_iso8601_datetime(text) ==
    IF text = "" THEN [none |-> TRUE, timestamp |-> 0]
    ELSE [none |-> FALSE, timestamp |-> 1]

\* BaseWaczMiddleware._uri_template ("" for None)
_uri_template(s) ==
    IF s.SW_EXPORT_URI = "" THEN ""
    ELSE IF is_uri_directory(s.SW_EXPORT_URI) THEN s.SW_EXPORT_URI \o "{filename}"
    ELSE s.SW_EXPORT_URI

\* BaseWaczMiddleware._strategy: StrategyRegistry.get of the configured
\* name, "after" when unset; an unregistered name raises ValueError.
_strategy(s) ==
    LET name == IF s.SW_WACZ_LOOKUP_STRATEGY = "" THEN "after" ELSE s.SW_WACZ_LOOKUP_STRATEGY
    IN  IF name \in {"before", "after"} THEN [status |-> "ok", name |-> name]
        ELSE [status |-> "ValueError", name |-> name]

\* BaseWaczMiddleware._resolve_wacz_uris, matching_files being what
\* resolver.resolve() finds at the template.
_resolve_wacz_uris(s, matching_files) ==
    LET uri_template == _uri_template(s)
        target_time == parse_iso8601_datetime(s.SW_WACZ_LOOKUP_TARGET)
        result == IF _strategy(s).name = "before"
                  THEN BeforeStrategy_find(matching_files, target_time.timestamp)
                  ELSE AfterStrategy_find(matching_files, target_time.timestamp)
    IN  IF s.SW_WACZ_SOURCE_URI # ""
        THEN [status |-> "ok", uris |-> re_split(s.SW_WACZ_SOURCE_URI)]
        ELSE IF uri_template = "" \/ target_time.none THEN [status |-> "ok", uris |-> <<>>]
        ELSE IF _strategy(s).status # "ok" THEN [status |-> _strategy(s).status, uris |-> <<>>]
        ELSE IF /\ extract_base_from_uri_template(uri_template) = uri_template
                /\ ~is_uri_directory(uri_template)
             THEN [status |-> "ok",
                   uris |-> IF Char(uri_template, 1) = "/"
                            THEN <<"file://" \o uri_template>> ELSE <<uri_template>>]
        ELSE IF matching_files = <<>> THEN [status |-> "ok", uris |-> <<>>]
        ELSE [status |-> "ok", uris |-> IF result.none THEN <<>> ELSE <<result.uri>>]

InitSettings ==
    /\ ExporterIdle /\ ReplayIdle /\ StorageIdle /\ CdxjIdle
    /\ settings \in Settings
    /\ configured = [exporter |-> "", middleware |-> "", wacz_uris |-> <<>>]
    /\ files \in {<<>>,
                  <<[uri |-> "archive_1.wacz", last_modified |-> 0]>>,
                  <<[uri |-> "archive_1.wacz", last_modified |-> 0],
                    [uri |-> "archive_2.wacz", last_modified |-> 2]>>}
    /\ target = 0
    /\ found = [before |-> [called |-> FALSE], after |-> [called |-> FALSE]]

\* WaczExporter(settings, crawler)
WaczExporter_init ==
    /\ configured.exporter = ""
    /\ configured' = [configured EXCEPT
           !.exporter = _check_configuration_prerequisites(settings)]
    /\ UNCHANGED settings
    /\ UNCHANGED <<exporter_vars, replay_vars, storage_vars, strategy_vars, cdxj_vars>>

\* BaseWaczMiddleware(settings, stats, spider_name): NotConfigured when no
\* URI was resolved.
BaseWaczMiddleware_init ==
    /\ configured.middleware = ""
    /\ LET resolved == _resolve_wacz_uris(settings, files)
       IN  configured' = [configured EXCEPT
               !.middleware = IF resolved.status # "ok" THEN resolved.status
                              ELSE IF resolved.uris = <<>> THEN "NotConfigured"
                              ELSE "ok",
               !.wacz_uris = resolved.uris]
    /\ UNCHANGED settings
    /\ UNCHANGED <<exporter_vars, replay_vars, storage_vars, strategy_vars, cdxj_vars>>

NextSettings == WaczExporter_init \/ BaseWaczMiddleware_init

SpecSettings == InitSettings /\ [][NextSettings]_vars

\* C16: for every combination of settings, when the middleware is
\* constructed with at least one WACZ URI to read from, constructing the
\* exporter from the same settings raises NotConfigured.
C16_NeverBothEnabled ==
    (configured.middleware = "ok" /\ configured.exporter # "") =>
        configured.exporter = "NotConfigured"

----------------------------------------------------------------------------
(* Crawling from an archive, end to end (SpecServe): the start requests     *)
(* that WaczCrawlMiddleware.process_start_requests of spidermiddlewares.py  *)
(* yields go through WaczMiddleware.process_request of                      *)
(* downloadermiddlewares.py; both middlewares are configured with the same  *)
(* archives and crawl mode is on.                                           *)

ServeSpiders ==
    [allowed_domains : {NoAttr, Attr({"quotes.toscrape.com"})},
     archive_disallow_regexp : {NoAttr, Attr("/tag/")},
     archive_blacklist_regexp : {NoAttr, Attr("/page/")}]

InitServe ==
    /\ ExporterIdle /\ StorageIdle /\ StrategyIdle /\ CdxjIdle /\ SettingsIdle
    /\ spider \in ServeSpiders
    /\ crawl = TRUE
    /\ \E n \in 1..MaxArchives : \E zips \in [1..n -> MultiSources] :
          wacz = [state |-> "closed",
                  uris |-> [a \in 1..n |-> [zip_exists |-> TRUE, zip |-> zips[a]]],
                  waczs |-> <<>>, zips |-> zips]
    /\ wacz_stats = [request_blacklisted |-> 0, crawl_skip |-> 0,
                     response_not_recognized |-> 0, hit |-> 0, response_not_found |-> 0]
    /\ outcome = [kind |-> "idle"]

\* The Request object as process_request reads it: its URL, whether its
\* flags hold wacz_crawl_skip, and
\* request.meta.get("wacz_index_entry", request.url).
DownloaderRequest(request) ==
    [url |-> request.url, skip |-> Flagged(request), meta |-> request.meta,
     has_entry |-> "wacz_index_entry" \in DOMAIN request.meta,
     key |-> IF "wacz_index_entry" \in DOMAIN request.meta
             THEN request.meta.wacz_index_entry
             ELSE [is_str |-> TRUE, url |-> request.url]]

\* The engine takes the i-th request process_start_requests yielded and
\* passes it to the downloader middleware.
download_start_request(i) ==
    /\ wacz.waczs # <<>>
    /\ LET yielded == crawl_entries(MultiWaczFile_iter_index(wacz.waczs), spider,
                                    [off_site |-> 0, disallowed |-> 0,
                                     start_request_count |-> 0], <<>>).requests
       IN  /\ i \in 1..Len(yielded)
           /\ process_request(DownloaderRequest(yielded[i]))

NextServe ==
    \/ WaczCrawlMiddleware_spider_opened
    \/ \E i \in 1..(2 * MaxArchives) : download_start_request(i)

SpecServe == InitServe /\ [][NextServe]_vars

\* The record the index entry a request was generated from points at.
OwnRecord(request) ==
    LET entry == request.meta.cdxj_record
        members == WarcMembers(wacz.zips[entry.wacz_file])
    IN  members[CHOOSE m \in 1..Len(members) : members[m].offset = entry.data.offset].rec

\* C21: a start request of crawl-from-archive mode, which carries the index
\* entry it was generated from, is answered by replay with the record of
\* that entry - also when the index holds several entries for its URL -
\* unless the request is blacklisted or flagged to be skipped.
C21_AnsweredFromOwnEntry ==
    (/\ outcome.kind # "idle"
     /\ "cdxj_record" \in DOMAIN outcome.request.meta
     /\ HoldsWarc(wacz.zips[outcome.request.meta.cdxj_record.wacz_file])
     /\ outcome.kind # "IgnoreRequest") =>
        /\ outcome.kind = "response"
        /\ outcome.url = OwnRecord(outcome.request).uri
        /\ outcome.status = OwnRecord(outcome.request).status
        /\ outcome.body = OwnRecord(outcome.request).body

----------------------------------------------------------------------------
(* The ranged reader on the bytes of a ZIP file (SpecZip):                  *)
(* RemoteZipStorageHandler._get_zip_metadata of wacz/storages.py over       *)
(* wacz/zip_utils.py.  The object is a sequence of segments [kind, v, len], *)
(* a structure of the ZIP format or a run of other bytes, so that a member  *)
(* of 4 GiB is one segment; a byte string fetched from it is a sequence of  *)
(* pieces [kind, v, lo, n]: n bytes of a segment from its byte lo on.       *)

MaxMembers == 2

ZIP64_EOCD_RECORD_SIZE == 56
ZIP64_LOCATOR_SIZE == 20
EOCD_SEARCH_SIZE == 65536
\* 0xFFFF and 0xFFFFFFFF, the values of a field whose real value is in a
\* ZIP64 structure.  The 4-byte fields of the model are 20 bits wide, so
\* that the offsets of an object with a member too large for them stay
\* inside the integers of the model checker: MAX32 stands for 0xFFFFFFFF
\* and Large for the 4 GiB that no 4-byte field can hold.
MAX16 == 65535
MAX32 == 1048575
Large == MAX32 + 1
\* The signatures as little-endian 32-bit numbers.
LFH_SIGNATURE == 67324752
CD_HEADER_SIGNATURE == 33639248
EOCD_SIGNATURE == 101010256
ZIP64_EOCD_SIGNATURE == 101075792
ZIP64_EOCD_LOCATOR_SIGNATURE == 117853008
\* What bytes that are no field of a structure decode to, and the outcome
\* of struct.unpack on fewer bytes than the format needs.
Garbage == 0 - 1
StructError == 0 - 2

Seg(kind, v, len) == [kind |-> kind, v |-> v, len |-> len]

RECURSIVE SegsLen(_)
SegsLen(segs) == IF segs = <<>> THEN 0 ELSE segs[1].len + SegsLen(Tail(segs))

NonEmpty(segs) == SelectSeq(segs, LAMBDA s : s.len > 0)

\* A member as a ZIP writer lays it out: m.form tells which 32-bit fields
\* of its headers hold 0xFFFFFFFF with the real value in the ZIP64 extra
\* field ("sizes": both sizes, "offset": the local-header offset, "all").
EscapesSizes(m) == m.form \in {"sizes", "all"}
EscapesOffset(m) == m.form \in {"offset", "all"}

LocalExtraLen(m) == IF EscapesSizes(m) THEN 20 ELSE 0

LocalSegs(m) ==
    NonEmpty(<<Seg("lfh", [name_len |-> Len(m.name), extra_len |-> LocalExtraLen(m)],
                   LOCAL_HEADER_SIZE),
               Seg("name", [name |-> m.name], Len(m.name)),
               Seg("local extra", [name |-> m.name], LocalExtraLen(m)),
               Seg("data", [name |-> m.name], m.size)>>)

RECURSIVE AllLocalSegs(_)
AllLocalSegs(members) ==
    IF members = <<>> THEN <<>> ELSE LocalSegs(members[1]) \o AllLocalSegs(Tail(members))

HeaderOffset(members, i) == SegsLen(AllLocalSegs(SubSeq(members, 1, i - 1)))

\* The 64-bit values of the ZIP64 extra field of a central-directory entry,
\* in the order of the format: uncompressed size, compressed size, offset.
Zip64Values(members, i) ==
    (IF EscapesSizes(members[i]) THEN <<members[i].size, members[i].size>> ELSE <<>>)
    \o (IF EscapesOffset(members[i]) THEN <<HeaderOffset(members, i)>> ELSE <<>>)

CdSegs(members, i, bad_signature) ==
    LET m == members[i]
        values == Zip64Values(members, i)
        extra_len == IF values = <<>> THEN 0 ELSE 4 + 8 * Len(values)
    IN  NonEmpty(<<Seg("cd", [signature |-> IF bad_signature THEN Garbage
                                            ELSE CD_HEADER_SIGNATURE,
                              compressed_size |-> IF EscapesSizes(m) THEN MAX32 ELSE m.size,
                              name_len |-> Len(m.name), extra_len |-> extra_len,
                              comment_len |-> m.comment,
                              header_offset |-> IF EscapesOffset(m) THEN MAX32
                                                ELSE HeaderOffset(members, i)],
                       CD_HEADER_SIZE),
                   Seg("name", [name |-> m.name], Len(m.name)),
                   Seg("extra", [tag |-> 1, values |-> values], extra_len),
                   Seg("comment", [name |-> m.name], m.comment)>>)

RECURSIVE AllCdSegs(_, _, _)
AllCdSegs(members, i, corrupt) ==
    IF i > Len(members) THEN <<>>
    ELSE CdSegs(members, i, corrupt = i) \o AllCdSegs(members, i + 1, corrupt)

Min(a, b) == IF a < b THEN a ELSE b
Max(a, b) == IF a > b THEN a ELSE b

\* The object of an archive a: the members, the central directory, the
\* ZIP64 end record and its locator when a.zip64, the end record.  a.cut
\* bytes of the directory lie outside the size the end records give.
ZipObject(a) ==
    LET locals == AllLocalSegs(a.members)
        cd == AllCdSegs(a.members, 1, a.corrupt)
        cd_start == SegsLen(locals)
        cd_size == SegsLen(cd) - a.cut
        n == Len(a.members)
    IN  locals \o cd
        \o (IF a.zip64
            THEN <<Seg("eocd64", [cd_size |-> cd_size, cd_start |-> cd_start],
                       ZIP64_EOCD_RECORD_SIZE),
                   Seg("locator", [offset |-> cd_start + SegsLen(cd)], ZIP64_LOCATOR_SIZE)>>
            ELSE <<>>)
        \o <<Seg("eocd", [entries |-> n, entries_disk |-> n,
                          cd_size |-> Min(cd_size, MAX32),
                          cd_start |-> IF a.zip64 THEN MAX32 ELSE cd_start],
                 EOCD_RECORD_SIZE)>>

\* The bytes first..last of the segments, the first segment starting at pos.
RECURSIVE Slice(_, _, _, _)
Slice(segs, pos, first, last) ==
    IF segs = <<>> \/ pos > last THEN <<>>
    ELSE LET lo == Max(first, pos)
             hi == Min(last, pos + segs[1].len - 1)
         IN  (IF lo <= hi
              THEN <<[kind |-> segs[1].kind, v |-> segs[1].v, lo |-> lo - pos, n |-> hi - lo + 1]>>
              ELSE <<>>)
             \o Slice(Tail(segs), pos + segs[1].len, first, last)

\* S3ZipStorageHandler.get_object(f"bytes={first}-{last}") on the object:
\* S3 answers the part of the range that lies in the object, and with an
\* error a range that starts behind its end.
RemoteZipStorageHandler_get_object(object, first, last) ==
    IF last < first \/ first >= SegsLen(object) THEN Raise("InvalidRange")
    ELSE Ok(Slice(object, 0, first, Min(last, SegsLen(object) - 1)))

RECURSIVE BytesLen(_)
BytesLen(bytes) == IF bytes = <<>> THEN 0 ELSE bytes[1].n + BytesLen(Tail(bytes))

\* bytes[at:]
RECURSIVE From(_, _)
From(bytes, at) ==
    IF bytes = <<>> THEN <<>>
    ELSE IF at >= bytes[1].n THEN From(Tail(bytes), at - bytes[1].n)
    ELSE IF at <= 0 THEN bytes
    ELSE <<[bytes[1] EXCEPT !.lo = @ + at, !.n = @ - at]>> \o Tail(bytes)

\* The field of a structure that starts at byte r of it and is w bytes wide.
FieldOf(kind, v, r, w) ==
    CASE kind = "eocd" /\ r = 0 /\ w = 4 -> EOCD_SIGNATURE
      [] kind = "eocd" /\ r = 8 /\ w = 2 -> v.entries
      [] kind = "eocd" /\ r = 10 /\ w = 2 -> v.entries_disk
      [] kind = "eocd" /\ r = 12 /\ w = 4 -> v.cd_size
      [] kind = "eocd" /\ r = 16 /\ w = 4 -> v.cd_start
      [] kind = "locator" /\ r = 0 /\ w = 4 -> ZIP64_EOCD_LOCATOR_SIGNATURE
      [] kind = "locator" /\ r = 8 /\ w = 8 -> v.offset
      [] kind = "eocd64" /\ r = 0 /\ w = 4 -> ZIP64_EOCD_SIGNATURE
      [] kind = "eocd64" /\ r = 40 /\ w = 8 -> v.cd_size
      [] kind = "eocd64" /\ r = 48 /\ w = 8 -> v.cd_start
      [] kind = "cd" /\ r = 0 /\ w = 4 -> v.signature
      [] kind = "cd" /\ r = 20 /\ w = 4 -> v.compressed_size
      [] kind = "cd" /\ r = 28 /\ w = 2 -> v.name_len
      [] kind = "cd" /\ r = 30 /\ w = 2 -> v.extra_len
      [] kind = "cd" /\ r = 42 /\ w = 4 -> v.header_offset
      [] kind = "lfh" /\ r = 0 /\ w = 4 -> LFH_SIGNATURE
      [] kind = "lfh" /\ r = 26 /\ w = 2 -> v.name_len
      [] kind = "lfh" /\ r = 28 /\ w = 2 -> v.extra_len
      [] kind = "extra" /\ r = 0 /\ w = 2 -> v.tag
      [] kind = "extra" /\ r = 2 /\ w = 2 -> 8 * Len(v.values)
      [] kind = "extra" /\ r = 4 /\ w = 8 -> v.values[1]
      [] OTHER -> Garbage

\* struct.unpack of the w bytes bytes[at:at + w] as one little-endian number.
unpack(bytes, at, w) ==
    LET rest == From(bytes, at)
    IN  IF BytesLen(rest) < w THEN StructError
        ELSE IF rest[1].n < w THEN Garbage
        ELSE FieldOf(rest[1].kind, rest[1].v, rest[1].lo, w)

\* bytes[at:at + 4] compared with a signature: a short slice is none.
signature_at(bytes, at) ==
    IF unpack(bytes, at, 4) = StructError THEN Garbage ELSE unpack(bytes, at, 4)

\* bytes[at:at + n].decode("utf-8") where a file name is expected
decode_name(bytes, at, n) ==
    LET rest == From(bytes, at)
        have == Min(n, BytesLen(rest))
    IN  IF have = 0 THEN ""
        ELSE IF rest[1].kind = "name" /\ rest[1].n >= have
             THEN SubSeq(rest[1].v.name, rest[1].lo + 1, rest[1].lo + have)
        ELSE "?"

\* zip_utils.find_eocd: search_range.rfind(EOCD_SIGNATURE), -1 when absent
RECURSIVE find_eocd(_, _)
find_eocd(search_range, i) ==
    IF i = 0 THEN Garbage
    ELSE IF /\ search_range[i].kind = "eocd" /\ search_range[i].lo = 0
            /\ BytesLen(SubSeq(search_range, i, Len(search_range))) >= 4
         THEN BytesLen(SubSeq(search_range, 1, i - 1))
    ELSE find_eocd(search_range, i - 1)

\* A number a reader method returned, or the exception it raised.
Value(n) == [status |-> "ok", value |-> n]
Raised(exception) == [status |-> exception, value |-> Garbage]

_find_eocd(object, file_size) ==
    LET search_offset == Max(0, file_size - EOCD_SEARCH_SIZE)
        search_range == RemoteZipStorageHandler_get_object(object, search_offset, file_size - 1)
    IN  IF search_range.status # "ok" THEN Raised(search_range.status)
        ELSE IF find_eocd(search_range.data, Len(search_range.data)) = Garbage
             THEN Raised("ValueError")
        ELSE Value(find_eocd(search_range.data, Len(search_range.data)) + search_offset)

\* zip_utils.find_zip64_eocd(locator)
find_zip64_eocd(locator) ==
    IF signature_at(locator, 0) # ZIP64_EOCD_LOCATOR_SIGNATURE THEN Raised("ValueError")
    ELSE IF unpack(locator, 8, 8) = StructError THEN Raised("struct.error")
    ELSE Value(unpack(locator, 8, 8))

_find_zip64_eocd(object, eocd_offset) ==
    LET locator_offset == eocd_offset - ZIP64_LOCATOR_SIZE
        locator == RemoteZipStorageHandler_get_object(object, locator_offset, eocd_offset - 1)
    IN  IF locator.status # "ok" THEN Raised(locator.status)
        ELSE IF find_zip64_eocd(locator.data).status # "ok" THEN find_zip64_eocd(locator.data)
        ELSE Value(find_zip64_eocd(locator.data).value + locator_offset)

\* zip_utils.is_zip64(eocd); the record was found by its signature
is_zip64(eocd) ==
    \/ unpack(eocd, 10, 2) = MAX16
    \/ unpack(eocd, 8, 2) = MAX16
    \/ unpack(eocd, 12, 4) = MAX32
    \/ unpack(eocd, 16, 4) = MAX32

_get_file_header_length(object, offset) ==
    LET local_header == RemoteZipStorageHandler_get_object(object, offset, offset + 29)
    IN  IF local_header.status # "ok" THEN Raised(local_header.status)
        ELSE IF signature_at(local_header.data, 0) # LFH_SIGNATURE THEN Raised("ValueError")
        ELSE IF StructError \in {unpack(local_header.data, 26, 2), unpack(local_header.data, 28, 2)}
             THEN Raised("struct.error")
        ELSE Value(LOCAL_HEADER_SIZE + unpack(local_header.data, 26, 2)
                   + unpack(local_header.data, 28, 2))

\* zip_utils.read_zip64_extra_field(central_directory, offset)
read_zip64_extra_field(central_directory, offset) ==
    LET extra_field_data == From(central_directory, offset + CD_HEADER_SIZE)
    IN  IF StructError \in {unpack(extra_field_data, 0, 2), unpack(extra_field_data, 2, 2)}
        THEN Raised("struct.error")
        ELSE IF unpack(extra_field_data, 0, 2) = 1
             THEN IF unpack(extra_field_data, 4, 8) = StructError THEN Raised("struct.error")
                  ELSE Value(unpack(extra_field_data, 4, 8))
        ELSE Raised("ValueError")

\* zip_utils.parse_central_directory(central_directory, self._get_file_header_length):
\* the loop from offset on; [status, entries].
RECURSIVE parse_central_directory(_, _, _, _)
parse_central_directory(central_directory, object, offset, entries) ==
    IF offset >= BytesLen(central_directory) THEN [status |-> "ok", entries |-> entries]
    ELSE IF signature_at(central_directory, offset) # CD_HEADER_SIGNATURE
         THEN [status |-> "ok", entries |-> entries]
    ELSE LET file_name_length == unpack(central_directory, offset + 28, 2)
             extra_field_length == unpack(central_directory, offset + 30, 2)
             compressed_size32 == unpack(central_directory, offset + 20, 4)
             header_offset == unpack(central_directory, offset + 42, 4)
             compressed_size == IF compressed_size32 = MAX32
                                THEN read_zip64_extra_field(central_directory, offset)
                                ELSE Value(compressed_size32)
             file_name == decode_name(central_directory, offset + CD_HEADER_SIZE, file_name_length)
             file_header_length == _get_file_header_length(object, header_offset)
         IN  IF StructError \in {file_name_length, extra_field_length,
                                 compressed_size32, header_offset}
             THEN [status |-> "struct.error", entries |-> <<>>]
             ELSE IF compressed_size.status # "ok"
                  THEN [status |-> compressed_size.status, entries |-> <<>>]
             ELSE IF file_header_length.status # "ok"
                  THEN [status |-> file_header_length.status, entries |-> <<>>]
             ELSE parse_central_directory(central_directory, object,
                      offset + CD_HEADER_SIZE + file_name_length + extra_field_length,
                      (file_name :> [header_offset |-> header_offset,
                                     file_header_length |-> file_header_length.value,
                                     compressed_size |-> compressed_size.value]) @@ entries)

\* RemoteZipStorageHandler._get_zip_metadata: [status, entries], with the
\* offset at which the ZIP64 end record was requested (Garbage when none
\* was) and the cd_start and cd_size the directory was requested with.
NoMetadata(exception, zip64_eocd_offset, cd_start, cd_size) ==
    [status |-> exception, entries |-> <<>>, zip64_eocd_offset |-> zip64_eocd_offset,
     cd_start |-> cd_start, cd_size |-> cd_size]

read_central_directory(object, zip64_eocd_offset, cd_start, cd_size) ==
    LET central_directory ==
            RemoteZipStorageHandler_get_object(object, cd_start, cd_start + cd_size - 1)
    IN  IF central_directory.status # "ok"
        THEN NoMetadata(central_directory.status, zip64_eocd_offset, cd_start, cd_size)
        ELSE parse_central_directory(central_directory.data, object, 0, <<>>)
             @@ [zip64_eocd_offset |-> zip64_eocd_offset,
                 cd_start |-> cd_start, cd_size |-> cd_size]

_get_zip_metadata(object) ==
    LET eocd_offset == _find_eocd(object, SegsLen(object))
        eocd == RemoteZipStorageHandler_get_object(object, eocd_offset.value,
                                                   eocd_offset.value + EOCD_RECORD_SIZE - 1)
        zip64_eocd_offset == _find_zip64_eocd(object, eocd_offset.value)
        zip64_eocd == RemoteZipStorageHandler_get_object(object, zip64_eocd_offset.value,
                          zip64_eocd_offset.value + ZIP64_EOCD_RECORD_SIZE - 1)
    IN  IF eocd_offset.status # "ok" THEN NoMetadata(eocd_offset.status, Garbage, Garbage, Garbage)
        ELSE IF eocd.status # "ok" THEN NoMetadata(eocd.status, Garbage, Garbage, Garbage)
        ELSE IF ~is_zip64(eocd.data)
             THEN \* zip_utils.parse_eocd(eocd)
                  read_central_directory(object, Garbage, unpack(eocd.data, 16, 4),
                                         unpack(eocd.data, 12, 4))
        ELSE IF zip64_eocd_offset.status # "ok"
             THEN NoMetadata(zip64_eocd_offset.status, Garbage, Garbage, Garbage)
        ELSE IF zip64_eocd.status # "ok"
             THEN NoMetadata(zip64_eocd.status, zip64_eocd_offset.value, Garbage, Garbage)
        ELSE \* zip_utils.parse_zip64_eocd(zip64_eocd)
             IF StructError \in {unpack(zip64_eocd.data, 40, 8), unpack(zip64_eocd.data, 48, 8)}
             THEN NoMetadata("struct.error", zip64_eocd_offset.value, Garbage, Garbage)
             ELSE read_central_directory(object, zip64_eocd_offset.value,
                                         unpack(zip64_eocd.data, 48, 8),
                                         unpack(zip64_eocd.data, 40, 8))

\* The archives: one to MaxMembers members, each small or Large, with or
\* without ZIP64 extra fields and a file comment; with or without the
\* ZIP64 end record; possibly with a directory entry whose signature is
\* damaged, or with end records that give the directory too small a size.
ZipMemberNames ==
    <<ARCHIVE_DIR \o warc_fname, INDEXES_DIR \o cdxj_fname, datapackage_fname,
      "pages/pages.jsonl">>

ZipMembers(n) ==
    {members \in [1..n -> [size : {2, Large}, form : {"none", "sizes", "offset", "all"},
                           comment : {0, 3}, name : {ZipMemberNames[i] : i \in 1..n}]] :
        \A i \in 1..n :
            /\ members[i].name = ZipMemberNames[i]
            /\ members[i].size >= Large => EscapesSizes(members[i])
            /\ HeaderOffset(members, i) >= Large => EscapesOffset(members[i])}

\* The last directory entry cut inside its file name, inside its header,
\* or off as a whole.
Cuts(members) ==
    LET last == SegsLen(CdSegs(members, Len(members), FALSE))
    IN  {0, last - CD_HEADER_SIZE - 1, last - 20, last}

ZipArchives ==
    UNION {{[members |-> members, zip64 |-> zip64, corrupt |-> corrupt, cut |-> cut] :
               zip64 \in {z \in BOOLEAN : SegsLen(AllLocalSegs(members)) >= Large => z},
               corrupt \in 0..Len(members), cut \in Cuts(members)} :
           members \in UNION {ZipMembers(n) : n \in 1..MaxMembers}}

InitZip ==
    /\ ReplayIdle /\ StrategyIdle /\ CdxjIdle /\ SettingsIdle
    /\ pc = "idle" /\ clock = 0 /\ uuid = 0 /\ warc_file = <<>> /\ fs = {}
    /\ stats = [response_written |-> 0, request_written |-> 0,
                writer_status_count |-> [s \in Statuses |-> 0]]
    /\ downloads = <<>>
    /\ \E a \in ZipArchives :
          packages = <<[by |-> "zip", path |-> wacz_fname, persisted |-> TRUE,
                        zip |-> a, object |-> ZipObject(a)]>>
    /\ reader = [state |-> "none"]
    /\ fetched = [url |-> "", outcome |-> "None", record |-> NoRecord]
    /\ fetched_part = [called |-> FALSE]

\* S3ZipStorageHandler.__init__: self.zip_metadata = self._get_zip_metadata()
S3ZipStorageHandler_init ==
    /\ ~fetched_part.called
    /\ fetched_part' = [called |-> TRUE, by |-> "__init__"]
                       @@ _get_zip_metadata(packages[1].object)
    /\ UNCHANGED <<exporter_vars, replay_vars, strategy_vars, cdxj_vars, settings_vars>>

\* zip_utils.parse_central_directory(central_directory,
\* handler._get_file_header_length) on the bytes of the directory that the
\* end records give
parse_central_directory_call ==
    /\ ~fetched_part.called
    /\ LET a == packages[1].zip
           cd_start == SegsLen(AllLocalSegs(a.members))
           cd_size == SegsLen(AllCdSegs(a.members, 1, a.corrupt)) - a.cut
       IN  fetched_part' =
               [called |-> TRUE, by |-> "parse_central_directory",
                zip64_eocd_offset |-> Garbage, cd_start |-> cd_start, cd_size |-> cd_size]
               @@ parse_central_directory(
                      Slice(packages[1].object, 0, cd_start, cd_start + cd_size - 1),
                      packages[1].object, 0, <<>>)
    /\ UNCHANGED <<exporter_vars, replay_vars, strategy_vars, cdxj_vars, settings_vars>>

NextZip == S3ZipStorageHandler_init \/ parse_central_directory_call

SpecZip == InitZip /\ [][NextZip]_vars

\* The archive behind the handler and where its writer put its parts.
Archive == packages[1].zip
TrueCdStart == SegsLen(AllLocalSegs(Archive.members))
TrueCdSize == SegsLen(AllCdSegs(Archive.members, 1, Archive.corrupt))

\* C22: for an archive with the ZIP64 end record, the ranged reader requests
\* that record at the offset the ZIP64 locator stores, which is where the
\* record is, and requests the directory with the cd_start and cd_size of
\* that record.
C22_Zip64EndRecord ==
    (fetched_part.called /\ fetched_part.by = "__init__" /\ Archive.zip64) =>
        /\ fetched_part.zip64_eocd_offset = TrueCdStart + TrueCdSize
        /\ fetched_part.cd_start = TrueCdStart
        /\ fetched_part.cd_size = TrueCdSize - Archive.cut

\* A directory as a ZIP writer leaves it: no damaged entry, nothing cut.
Intact == Archive.corrupt = 0 /\ Archive.cut = 0
Comments == \E i \in 1..Len(Archive.members) : Archive.members[i].comment > 0

\* C23: parse_central_directory on an intact directory without comments
\* gives a map with, for every member, its compressed size and the offset
\* of its local header - also for a member whose 32-bit field holds
\* 0xFFFFFFFF and whose ZIP64 extra field, behind the file name, holds the
\* value.
C23_TrueSizeAndOffset ==
    (/\ fetched_part.called /\ fetched_part.by = "parse_central_directory"
     /\ Intact /\ ~Comments) =>
        /\ fetched_part.status = "ok"
        /\ \A i \in 1..Len(Archive.members) :
              /\ Archive.members[i].name \in DOMAIN fetched_part.entries
              /\ fetched_part.entries[Archive.members[i].name].compressed_size
                     = Archive.members[i].size
              /\ fetched_part.entries[Archive.members[i].name].header_offset
                     = HeaderOffset(Archive.members, i)

\* C24: the reader ends with an error when an entry of the directory has a
\* damaged signature or the directory is cut short, and a member map it
\* returns has every member of the directory - also the members behind an
\* entry with a file comment.
C24_NoSilentOmission ==
    (fetched_part.called /\ fetched_part.status = "ok") =>
        /\ Intact
        /\ \A i \in 1..Len(Archive.members) :
              Archive.members[i].name \in DOMAIN fetched_part.entries

----------------------------------------------------------------------------
(* The index of an opened package (SpecIndex): a WaczFile is constructed on *)
(* a package whose indexes/index.cdxj holds any number of lines, some of    *)
(* them no CDXJ lines, and is then used for lookups and iteration.          *)

\* The number of lines of a long index: one line of it is less than 0.1%.
LongIndex == 1001

\* A line that is no CDXJ line (no datetime).
InvalidLine == [kind |-> "text", v |-> [text |-> "com,example)/index {\"url\":\"x\"}"], k |-> 1]

\* An index of total lines: the given lines over and over, with the lines
\* at the positions in bad replaced by the invalid line.
IndexOfLines(lines, total, bad) ==
    [k \in 1..total |-> IF k \in bad THEN InvalidLine ELSE lines[((k - 1) % Len(lines)) + 1]]

\* The indexes written for a WARC with the given index lines: the index as
\* the exporter writes it, the same with its first or last line damaged,
\* and for a WARC of one response a long index whose first line is
\* damaged: one line of LongIndex, and one line of a thousand.
IndexShapes(lines) ==
    {[total |-> Len(lines), bad |-> bad] :
        bad \in {{}} \cup {{p} : p \in {1, Len(lines)} \cap 1..Len(lines)}}
    \cup (IF Len(lines) = 1
          THEN {[total |-> total, bad |-> {1}] : total \in {LongIndex, LongIndex - 1}}
          ELSE {})

InitIndex ==
    /\ ReplayIdle /\ StorageIdle /\ StrategyIdle /\ CdxjIdle /\ SettingsIdle
    /\ pc = "closed"
    /\ clock = 0
    /\ uuid = 0
    /\ \E n \in 0..MaxDownloads : \E pairs \in [1..n -> StorageResponses] :
          /\ warc_file = WarcOf(pairs)
          /\ \E shape \in IndexShapes(write_cdxj_index(WarcOf(pairs), warc_fname)) :
                packages =
                    <<[by |-> "other", path |-> wacz_fname, persisted |-> TRUE,
                       zip |-> write_to_zip(
                                   <<[name |-> index_paths[1], method |-> "STORED",
                                      content |-> IndexOfLines(
                                          write_cdxj_index(WarcOf(pairs), warc_fname),
                                          shape.total, shape.bad)]>>,
                                   "STORED", warc_fname, ARCHIVE_DIR, WarcOf(pairs))]>>
    /\ fs = {}
    /\ stats = [response_written |-> 0, request_written |-> 0,
                writer_status_count |-> [s \in Statuses |-> 0]]
    /\ downloads = <<>>
    /\ reader = [state |-> "none"]
    /\ fetched = [url |-> "", outcome |-> "None", record |-> NoRecord]

\* self.index[url] on the defaultdict(list): a missing key is inserted.
defaultdict_get_mut(dict, url) ==
    IF \E i \in 1..Len(dict) : dict[i].url = url
    THEN [value |-> dict[CHOOSE i \in 1..Len(dict) : dict[i].url = url].records, dict |-> dict]
    ELSE [value |-> <<>>, dict |-> Append(dict, [url |-> url, records |-> <<>>])]

\* self.index.get(url, []) on the defaultdict(list): the value returned
\* and the dict afterwards; get does not call __missing__.
defaultdict_get(dict, url) ==
    IF \E i \in 1..Len(dict) : dict[i].url = url
    THEN [value |-> dict[CHOOSE i \in 1..Len(dict) : dict[i].url = url].records, dict |-> dict]
    ELSE [value |-> <<>>, dict |-> dict]

\* reader.get_warc_from_url(url), with what _find_in_index does to the index
WaczFile_get_warc_from_url(url) ==
    /\ reader.state = "open"
    /\ LET records == defaultdict_get(reader.index, url)
       IN  /\ reader' = [reader EXCEPT !.index = records.dict]
           /\ fetched' = [url |-> url, by |-> "get_warc_from_url"] @@
                  (IF records.value = <<>> THEN [outcome |-> "None", record |-> NoRecord]
                   ELSE get_warc_from_cdxj_record(reader, records.value[Len(records.value)]))
    /\ UNCHANGED <<pc, clock, uuid, warc_file, fs, stats, downloads, packages>>
    /\ UNCHANGED <<replay_vars, storage_vars, strategy_vars, cdxj_vars, settings_vars>>

\* list(reader.iter_index()), then reader.get_warc_from_cdxj_record of the
\* i-th entry; neither touches self.index.
WaczFile_get_warc_from_cdxj_record(i) ==
    /\ reader.state = "open"
    /\ i \in 1..Len(iter_index(reader.index))
    /\ fetched' = [url |-> iter_index(reader.index)[i].data.url, by |-> "iter_index"] @@
                  get_warc_from_cdxj_record(reader, iter_index(reader.index)[i])
    /\ UNCHANGED <<pc, clock, uuid, warc_file, fs, stats, downloads, packages, reader>>
    /\ UNCHANGED <<replay_vars, storage_vars, strategy_vars, cdxj_vars, settings_vars>>

NextIndex ==
    \/ \E backend \in {"local", "s3"} : open_wacz(backend)
    \/ \E url \in Urls \cup {"http://www.example.com/"} : WaczFile_get_warc_from_url(url)
    \/ \E i \in 1..MaxDownloads : WaczFile_get_warc_from_cdxj_record(i)

SpecIndex == InitIndex /\ [][NextIndex]_vars

\* The lines of the index member of the package, and the CDXJ lines of it.
AllLines == Member(packages[1].zip, index_paths[1]).content
ValidLines == SelectSeq(AllLines, LAMBDA cell : cell.kind = "line")

\* C25: opening a package whose index has lines that are no CDXJ lines
\* builds the index from the other lines when fewer than 0.1% of the lines
\* are invalid, and fails otherwise.
C25_InvalidLinesTolerated ==
    (reader.state # "none" /\ Len(AllLines) > Len(ValidLines)) =>
        IF 1000 * (Len(AllLines) - Len(ValidLines)) < Len(AllLines)
        THEN /\ reader.state = "open"
             /\ Len(iter_index(reader.index)) = Len(ValidLines)
        ELSE reader.state # "open"

\* C26: the index of an open WaczFile is, after any lookups, fetches and
\* iterations, what was parsed from the index member: its keys are the
\* URLs of the lines, in order of first appearance, and the entries of a
\* key are the lines of that URL in order - a lookup of a URL that is not
\* in the index adds no key.
C26_IndexStaysAsParsed ==
    reader.state = "open" =>
        /\ reader.index = _parse_index(AllLines, 1, <<>>).index
        /\ \A i \in 1..Len(reader.index) :
              /\ reader.index[i].records # <<>>
              /\ \E k \in 1..Len(AllLines) : AllLines[k].v.data.url = reader.index[i].url
        /\ Len(iter_index(reader.index)) = Len(AllLines)

C26_Witness ==
    /\ reader.state = "open"
    /\ Len(reader.index) = 2
    /\ fetched.url = "http://www.example.com/"
    /\ fetched.outcome = "None"

\* C30: a package whose index member is empty - the package of a crawl
\* that downloaded nothing - opens on either backend with an empty index,
\* and the whole-member read of the index that the S3 backend has made
\* did not ask for a range whose end precedes its start.
C30_EmptyMemberReads ==
    /\ (reader.state # "none" /\ AllLines = <<>>) =>
          (reader.state = "open" /\ reader.index = <<>>)
    /\ (reader.state # "none" /\ reader.backend = "s3") =>
          LET metadata == zip_metadata(packages[1].zip)[INDEXES_DIR \o cdxj_fname]
              range == _calculate_range(metadata, 0, metadata.compressed_size)
          IN  range.start <= range.end


\* ---------------------------------------------------------------------
\* C27: archives that cannot be opened.

\* The WaczFile of every configured URI whose archive exists, in the
\* configured order.
RECURSIVE Openable(_, _)
Openable(uris, n) ==
    IF n > Len(uris) THEN <<>>
    ELSE (IF uris[n].zip_exists THEN <<WaczFile("local", uris[n].zip, n)>> ELSE <<>>)
         \o Openable(uris, n + 1)

\* C27: after spider_opened in crawl mode no exception was raised and
\* self.wacz holds exactly the archives that exist, in configured order
\* (unset when there is none): a missing archive is skipped.
C27_UnopenableSkipped ==
    (wacz.state = "opened" /\ crawl /\ "uris" \in DOMAIN wacz)
        => /\ ~wacz.raised
           /\ wacz.waczs = Openable(wacz.uris, 1)


\* ---------------------------------------------------------------------
\* C28: the WARC file and the persisted package (SpecCreate).

\* C28: as long as no persist_file call has succeeded (it raised, or create
\* ended before reaching it), the WARC file is still on the disk.
C28_WarcKeptUntilPersisted ==
    (\A i \in 1..Len(packages) : ~packages[i].persisted) => "warc" \in fs


\* ---------------------------------------------------------------------
\* C29: the WARC version of the records of one file (Spec).

\* WarcFileWriter._warc_version_number: WARC_VERSION.split("/")[1].
_warc_version_number == SubSeq(WARC_VERSION, 6, Len(WARC_VERSION))

\* The info block of the warcinfo record written by write_warcinfo.
warcinfo_content ==
    [format |-> "WARC file version " \o _warc_version_number,
     conformsTo |-> "https://iipc.github.io/warc-specifications/specifications/warc-format/warc-"
                        \o _warc_version_number \o "/"]

\* The records appended to the WARC file so far.
Written == GunzipFrom(warc_file, 1).members

\* C29: every record of the file, the warcinfo record included, carries the
\* version line that the warcinfo record names in its format field.
C29_OneWarcVersion ==
    \A i \in 1..Len(Written) :
        "WARC file version " \o SubSeq(Written[i].rec.version, 6, Len(Written[i].rec.version))
            = warcinfo_content.format

====
